---- MODULE Spec2Model ----
(***************************************************************************)
(* A model of the BitArray library (bit_array.c): a packed bit vector      *)
(* held in a heap-allocated struct { num_bits, data } whose data buffer    *)
(* is BYTES_FROM_BITS(num_bits) bytes long.                                *)
(*                                                                         *)
(* Every C function is an operator of the same name that maps the heap     *)
(* (and the call's arguments) to an outcome record                         *)
(*     [heap, crashed, ret, out]                                           *)
(* where crashed tells that the call ended the program (an assert() of the *)
(* checked build failed, the library called exit(), the runtime trapped a  *)
(* store outside a buffer), ret is the returned value (a pointer, a bool   *)
(* as 0/1, a count) and out is the cell *result of the search functions,   *)
(* the text a print function wrote to its stream, or                       *)
(* the number of bytes an encoder stored into.  The actions Call_* are a   *)
(* caller that owns two handles, b and copy, and applies one library call  *)
(* per step.                                                               *)
(*                                                                         *)
(* index_t is size_t; plain char is signed (gcc on x86, the Makefile's     *)
(* compiler).                                                              *)
(***************************************************************************)
EXTENDS Integers, Sequences, FiniteSets, TLC

VARIABLES
    heap,       \* allocated blocks: pointer -> block (struct BitArray or byte buffer)
    ptrs,       \* the caller's handles: [b |-> pointer, copy |-> pointer]
    crashed,    \* a failed assert, an exit() or a trap: the program is gone
    last,       \* the last library call: its arguments, the state before it, its result
    budget,     \* how many more mutating or searching calls this run makes
    disk        \* the file the caller saves to and loads from

vars == <<heap, ptrs, crashed, last, budget, disk>>

(***************************************************************************)
(* Bounds of the model and the values the inputs are drawn from.           *)
(***************************************************************************)
MaxBits == 17

\* Byte values the initial buffers are built from: empty, full, only the
\* low nibble (bits 4..7 of the byte), a mixed pattern.
ByteVals == {0, 15, 165, 255}

\* Contents realloc may leave in the bytes it adds (indeterminate values).
GarbageVals == {165, 255}

Handles == {"b", "copy"}

(***************************************************************************)
(* Constants and macros, bit_array.c lines 55-78.                          *)
(***************************************************************************)
SET_BYTE == 255
CLEAR_BYTE == 0
UINT8_WIDTH == 8
NULL == 0

\* POS_CEIL applied to the quotient num / den of two non-negative integers:
\* (x > (index_t) x) ? (index_t) x + 1 : (index_t) x
POS_CEIL(num, den) ==
    IF num > (num \div den) * den THEN (num \div den) + 1 ELSE num \div den

BYTES_FROM_BITS(bits) == POS_CEIL(bits, UINT8_WIDTH)

BYTE_INDEX(index) == index \div UINT8_WIDTH

BIT_OFFSET(index) == index % UINT8_WIDTH

RECURSIVE ShiftLeft(_, _)
\* x << n
ShiftLeft(x, n) == IF n = 0 THEN x ELSE ShiftLeft(2 * x, n - 1)

\* A faulty GET_MASK that numbers the bits of a byte from the least significant one.
GET_MASK_lsb_first(index) == ShiftLeft(1, BIT_OFFSET(index))

GET_MASK(index) == ShiftLeft(1, UINT8_WIDTH - BIT_OFFSET(index) - 1)

MIN(X, Y) == IF X < Y THEN X ELSE Y

MAX(X, Y) == IF X > Y THEN X ELSE Y

(***************************************************************************)
(* Bitwise operators of C on one byte and a one-bit mask.                  *)
(***************************************************************************)
\* (byte & mask) != 0
TestMask(byte, mask) == (byte \div mask) % 2 = 1

\* byte | mask
OrMask(byte, mask) == IF TestMask(byte, mask) THEN byte ELSE byte + mask

\* byte & ~mask
AndNotMask(byte, mask) == IF TestMask(byte, mask) THEN byte - mask ELSE byte

\* byte ^ mask
XorMask(byte, mask) == IF TestMask(byte, mask) THEN byte - mask ELSE byte + mask

(***************************************************************************)
(* The heap.  A block is a struct BitArray or a byte buffer; both have the *)
(* same record shape.  bytes[k + 1] is data[k] of the C code.              *)
(***************************************************************************)
StructBlock(n, d) == [kind |-> "BitArray", num_bits |-> n, data |-> d, bytes |-> <<>>]

BytesBlock(bs) == [kind |-> "bytes", num_bits |-> 0, data |-> NULL, bytes |-> bs]

\* The address malloc, calloc or a moving realloc hands out: the lowest free one.
NewPtr(hp) ==
    CHOOSE p \in 1..(Cardinality(DOMAIN hp) + 1) :
        /\ p \notin DOMAIN hp
        /\ \A q \in 1..(p - 1) : q \in DOMAIN hp

Alloc(hp, p, block) == [q \in DOMAIN hp \cup {p} |-> IF q = p THEN block ELSE hp[q]]

Release(hp, p) == [q \in DOMAIN hp \ {p} |-> hp[q]]

\* bit_array->num_bits and bit_array->data[] of the struct at p
NumBits(hp, p) == hp[p].num_bits

DataOf(hp, p) == hp[hp[p].data].bytes

\* bit_array->data[...] = ...: the buffer of the struct at p replaced by bs
StoreData(hp, p, bs) == [hp EXCEPT ![hp[p].data].bytes = bs]

(***************************************************************************)
(* Outcomes of a call.                                                     *)
(***************************************************************************)
Outcome(hp, r, o) == [heap |-> hp, crashed |-> FALSE, ret |-> r, out |-> o]

\* assert(...) failed: the call ends there, with the heap as it is at that point
AssertFailed(hp, o) == [heap |-> hp, crashed |-> TRUE, ret |-> 0, out |-> o]

\* A faulty BITARRAY_ASSERT_INDEX_IN_RANGE, off by one: it accepts bit_index = num_bits.
BITARRAY_ASSERT_INDEX_IN_RANGE_off_by_one(hp, p, bit_index) ==
    bit_index <= NumBits(hp, p)

\* BITARRAY_ASSERT_INDEX_IN_RANGE of the checked build: TRUE when the assert passes
BITARRAY_ASSERT_INDEX_IN_RANGE(hp, p, bit_index) == bit_index < NumBits(hp, p)

\* Whether data[k] lies inside the buffer.  The asserts of the checked build keep
\* every access inside it; an access outside is modelled as having no effect.
HasByte(bs, k) == k + 1 \in DOMAIN bs

(***************************************************************************)
(* Single-bit operations on a buffer, bit_array.c lines 196-219.           *)
(***************************************************************************)
check_bit(bs, bit_index) ==
    /\ HasByte(bs, BYTE_INDEX(bit_index))
    /\ TestMask(bs[BYTE_INDEX(bit_index) + 1], GET_MASK(bit_index))

set_bit(bs, bit_index) ==
    IF HasByte(bs, BYTE_INDEX(bit_index))
    THEN [bs EXCEPT ![BYTE_INDEX(bit_index) + 1] = OrMask(@, GET_MASK(bit_index))]
    ELSE bs

\* A faulty clear_bit whose assignment is ^= instead of &= ~.
clear_bit_xor(bs, bit_index) ==
    IF HasByte(bs, BYTE_INDEX(bit_index))
    THEN [bs EXCEPT ![BYTE_INDEX(bit_index) + 1] = XorMask(@, GET_MASK(bit_index))]
    ELSE bs

clear_bit(bs, bit_index) ==
    IF HasByte(bs, BYTE_INDEX(bit_index))
    THEN [bs EXCEPT ![BYTE_INDEX(bit_index) + 1] = AndNotMask(@, GET_MASK(bit_index))]
    ELSE bs

\* A faulty toggle_bit whose assignment is |= instead of ^=.
toggle_bit_or(bs, bit_index) ==
    IF HasByte(bs, BYTE_INDEX(bit_index))
    THEN [bs EXCEPT ![BYTE_INDEX(bit_index) + 1] = OrMask(@, GET_MASK(bit_index))]
    ELSE bs

toggle_bit(bs, bit_index) ==
    IF HasByte(bs, BYTE_INDEX(bit_index))
    THEN [bs EXCEPT ![BYTE_INDEX(bit_index) + 1] = XorMask(@, GET_MASK(bit_index))]
    ELSE bs

\* The function pointer bit_operation of the region algorithm
bit_operation(op, bs, bit_index) ==
    CASE op = "set" -> set_bit(bs, bit_index)
      [] op = "clear" -> clear_bit(bs, bit_index)
      [] op = "toggle" -> toggle_bit(bs, bit_index)

BitArray_check_bit(hp, p, bit_index) ==
    IF ~BITARRAY_ASSERT_INDEX_IN_RANGE(hp, p, bit_index)
    THEN AssertFailed(hp, 0)
    ELSE Outcome(hp, IF check_bit(DataOf(hp, p), bit_index) THEN 1 ELSE 0, 0)

BitArray_set_bit(hp, p, bit_index) ==
    IF ~BITARRAY_ASSERT_INDEX_IN_RANGE(hp, p, bit_index)
    THEN AssertFailed(hp, 0)
    ELSE Outcome(StoreData(hp, p, set_bit(DataOf(hp, p), bit_index)), 0, 0)

BitArray_clear_bit(hp, p, bit_index) ==
    IF ~BITARRAY_ASSERT_INDEX_IN_RANGE(hp, p, bit_index)
    THEN AssertFailed(hp, 0)
    ELSE Outcome(StoreData(hp, p, clear_bit(DataOf(hp, p), bit_index)), 0, 0)

BitArray_toggle_bit(hp, p, bit_index) ==
    IF ~BITARRAY_ASSERT_INDEX_IN_RANGE(hp, p, bit_index)
    THEN AssertFailed(hp, 0)
    ELSE Outcome(StoreData(hp, p, toggle_bit(DataOf(hp, p), bit_index)), 0, 0)

(***************************************************************************)
(* The region algorithm, bit_array.c lines 257-307.                        *)
(***************************************************************************)
RECURSIVE OperateUp(_, _, _, _)
\* count calls bit_operation(bit_array, index++)
OperateUp(bs, op, index, count) ==
    IF count <= 0 THEN bs
    ELSE OperateUp(bit_operation(op, bs, index), op, index + 1, count - 1)

RECURSIVE OperateDown(_, _, _, _)
\* count calls bit_operation(bit_array, index--)
OperateDown(bs, op, index, count) ==
    IF count <= 0 THEN bs
    ELSE OperateDown(bit_operation(op, bs, index), op, index - 1, count - 1)

\* A faulty OperateRemainingBytes whose fill stops one byte short.
OperateRemainingBytes_one_short(bs, op, start_byte, remaining_bytes) ==
    [k \in DOMAIN bs |->
        IF start_byte + 1 <= k /\ k <= start_byte + remaining_bytes - 1
        THEN CASE op = "clear" -> CLEAR_BYTE
               [] op = "set" -> SET_BYTE
               [] OTHER -> SET_BYTE - bs[k]
        ELSE bs[k]]

\* memset(ptr, CLEAR_BYTE / SET_BYTE, remaining_bytes), or ptr[i] ^= SET_BYTE,
\* with ptr = data + start_byte
OperateRemainingBytes(bs, op, start_byte, remaining_bytes) ==
    [k \in DOMAIN bs |->
        IF start_byte + 1 <= k /\ k <= start_byte + remaining_bytes
        THEN CASE op = "clear" -> CLEAR_BYTE
               [] op = "set" -> SET_BYTE
               [] OTHER -> SET_BYTE - bs[k]
        ELSE bs[k]]

\* The body of internal_BitArray_operate_region after its two asserts
operate_region(bs, start_bit_index, end_bit_index, op) ==
    LET start0 == MIN(start_bit_index, end_bit_index)
        \* the MAX reads start_bit_index after the line before has overwritten it
        end0 == MAX(start0, end_bit_index)
        start_byte == BYTE_INDEX(start0)
        end_byte == BYTE_INDEX(end0)
    IN  IF start_byte = end_byte
        THEN OperateUp(bs, op, start0, end0 - start0 + 1)
        ELSE LET start_bit_offset == BIT_OFFSET(start0)
                 head == IF start_bit_offset # 0
                         THEN OperateUp(bs, op, start0, UINT8_WIDTH - start_bit_offset)
                         ELSE bs
                 start_byte1 == IF start_bit_offset # 0 THEN start_byte + 1 ELSE start_byte
                 end_bit_offset == BIT_OFFSET(end0)
                 tail == IF end_bit_offset # UINT8_WIDTH - 1
                         THEN OperateDown(head, op, end0, end_bit_offset + 1)
                         ELSE head
                 end_byte1 == IF end_bit_offset # UINT8_WIDTH - 1 THEN end_byte - 1 ELSE end_byte
                 remaining_bytes == end_byte1 - start_byte1 + 1
             IN  OperateRemainingBytes(tail, op, start_byte1, remaining_bytes)

internal_BitArray_operate_region(hp, p, start_bit_index, end_bit_index, op) ==
    IF ~BITARRAY_ASSERT_INDEX_IN_RANGE(hp, p, start_bit_index)
    THEN AssertFailed(hp, 0)
    ELSE IF ~BITARRAY_ASSERT_INDEX_IN_RANGE(hp, p, end_bit_index)
    THEN AssertFailed(hp, 0)
    ELSE Outcome(StoreData(hp, p,
                    operate_region(DataOf(hp, p), start_bit_index, end_bit_index, op)), 0, 0)

BitArray_set_region(hp, p, start_bit_index, end_bit_index) ==
    internal_BitArray_operate_region(hp, p, start_bit_index, end_bit_index, "set")

BitArray_clear_region(hp, p, start_bit_index, end_bit_index) ==
    internal_BitArray_operate_region(hp, p, start_bit_index, end_bit_index, "clear")

BitArray_toggle_region(hp, p, start_bit_index, end_bit_index) ==
    internal_BitArray_operate_region(hp, p, start_bit_index, end_bit_index, "toggle")

(***************************************************************************)
(* Allocation, bit_array.c lines 86-102 and 157-194.  The allocators of    *)
(* the C library take their outcome as arguments: whether the call fails,  *)
(* whether realloc moves the block, and what the added bytes hold.         *)
(***************************************************************************)
Zeros(n) == [k \in 1..n |-> CLEAR_BYTE]

\* A faulty BitArray_init whose buffer is size / 8 + 1 bytes long.
BitArray_init_extra_byte(hp, size, malloc_fail, calloc_fail) ==
    IF malloc_fail
    THEN Outcome(hp, NULL, 0)
    ELSE LET bit_array == NewPtr(hp)
             hp1 == Alloc(hp, bit_array, StructBlock(0, NULL))
             data == NewPtr(hp1)
         IN  IF calloc_fail
             THEN Outcome(Release(hp1, bit_array), NULL, 0)
             ELSE Outcome(Alloc(Alloc(hp1, data, BytesBlock(Zeros((size \div UINT8_WIDTH) + 1))),
                                bit_array, StructBlock(size, data)),
                          bit_array, 0)

\* A faulty BitArray_init that keeps the struct when the buffer cannot be allocated.
BitArray_init_leaky(hp, size, malloc_fail, calloc_fail) ==
    IF malloc_fail
    THEN Outcome(hp, NULL, 0)
    ELSE LET bit_array == NewPtr(hp)
             hp1 == Alloc(hp, bit_array, StructBlock(0, NULL))
             data == NewPtr(hp1)
         IN  IF calloc_fail
             THEN Outcome(hp1, NULL, 0)
             ELSE Outcome(Alloc(Alloc(hp1, data, BytesBlock(Zeros(BYTES_FROM_BITS(size)))),
                                bit_array, StructBlock(size, data)),
                          bit_array, 0)

BitArray_init(hp, size, malloc_fail, calloc_fail) ==
    IF malloc_fail
    THEN Outcome(hp, NULL, 0)
    ELSE LET bit_array == NewPtr(hp)
             \* the struct is allocated before its buffer; its fields are set below
             hp1 == Alloc(hp, bit_array, StructBlock(0, NULL))
             data == NewPtr(hp1)
         IN  IF calloc_fail
             THEN Outcome(Release(hp1, bit_array), NULL, 0)
             ELSE Outcome(Alloc(Alloc(hp1, data, BytesBlock(Zeros(BYTES_FROM_BITS(size)))),
                                bit_array, StructBlock(size, data)),
                          bit_array, 0)

BitArray_free(hp, p) == Outcome(Release(Release(hp, hp[p].data), p), 0, 0)

\* realloc(ptr, size): [heap, ptr]
realloc(hp, ptr, size, realloc_fail, moved, garbage) ==
    IF realloc_fail
    THEN [heap |-> hp, ptr |-> NULL]
    ELSE LET old == hp[ptr].bytes
             new == IF size <= Len(old) THEN SubSeq(old, 1, size) ELSE old \o garbage
         IN  IF moved
             THEN LET q == NewPtr(hp)
                  IN  [heap |-> Alloc(Release(hp, ptr), q, BytesBlock(new)), ptr |-> q]
             ELSE [heap |-> [hp EXCEPT ![ptr].bytes = new], ptr |-> ptr]

\* A faulty BitArray_resize that does not clear the bits it adds.
BitArray_resize_no_clear(hp, p, size, realloc_fail, moved, garbage) ==
    IF size = 0
    THEN Outcome(hp, NULL, 0)
    ELSE LET tmp == realloc(hp, hp[p].data, BYTES_FROM_BITS(size), realloc_fail, moved, garbage)
         IN  IF tmp.ptr = NULL
             THEN Outcome(hp, NULL, 0)
             ELSE Outcome([tmp.heap EXCEPT ![p].data = tmp.ptr, ![p].num_bits = size], p, 0)

\* A faulty BitArray_resize that stores what realloc returns in bit_array->data
\* before it tests it.
BitArray_resize_no_tmp(hp, p, size, realloc_fail, moved, garbage) ==
    IF size = 0
    THEN Outcome(hp, NULL, 0)
    ELSE LET tmp == realloc(hp, hp[p].data, BYTES_FROM_BITS(size), realloc_fail, moved, garbage)
             hp1 == [tmp.heap EXCEPT ![p].data = tmp.ptr]
         IN  IF tmp.ptr = NULL
             THEN Outcome(hp1, NULL, 0)
             ELSE LET old_size == NumBits(hp, p)
                      hp2 == [hp1 EXCEPT ![p].num_bits = size]
                  IN  IF size > old_size
                      THEN [BitArray_clear_region(hp2, p, old_size, size - 1) EXCEPT !.ret = p]
                      ELSE Outcome(hp2, p, 0)

BitArray_resize(hp, p, size, realloc_fail, moved, garbage) ==
    IF size = 0
    THEN Outcome(hp, NULL, 0)
    ELSE LET tmp == realloc(hp, hp[p].data, BYTES_FROM_BITS(size), realloc_fail, moved, garbage)
         IN  IF tmp.ptr = NULL
             THEN Outcome(hp, NULL, 0)
             ELSE LET old_size == NumBits(hp, p)
                      hp1 == [tmp.heap EXCEPT ![p].data = tmp.ptr, ![p].num_bits = size]
                  IN  \* If extending, clear additional memory
                      IF size > old_size
                      THEN [BitArray_clear_region(hp1, p, old_size, size - 1) EXCEPT !.ret = p]
                      ELSE Outcome(hp1, p, 0)

\* memcpy(dst, src, n)
memcpy(dst, src, n) == [k \in DOMAIN dst |-> IF k <= n THEN src[k] ELSE dst[k]]

\* A faulty BitArray_copy that shares the buffer of the original (a shallow copy).
BitArray_copy_shallow(hp, p, malloc_fail, calloc_fail) ==
    LET init == BitArray_init(hp, NumBits(hp, p), malloc_fail, calloc_fail)
        new_bit_array == init.ret
    IN  IF new_bit_array = NULL
        THEN init
        ELSE Outcome([Release(init.heap, init.heap[new_bit_array].data)
                         EXCEPT ![new_bit_array].data = hp[p].data],
                     new_bit_array, 0)

BitArray_copy(hp, p, malloc_fail, calloc_fail) ==
    LET init == BitArray_init(hp, NumBits(hp, p), malloc_fail, calloc_fail)
        new_bit_array == init.ret
    IN  IF new_bit_array = NULL
        THEN init
        ELSE Outcome(StoreData(init.heap, new_bit_array,
                               memcpy(DataOf(init.heap, new_bit_array), DataOf(hp, p),
                                      BYTES_FROM_BITS(NumBits(hp, p)))),
                     new_bit_array, 0)

(***************************************************************************)
(* Bit search, bit_array.c lines 389-489.  bit_state is TRUE for BIT_SET.  *)
(* A search yields [found, index].                                         *)
(***************************************************************************)
NotFound == [found |-> FALSE, index |-> 0]

Found(index) == [found |-> TRUE, index |-> index]

\* A byte that may hold a bit of bit_state: the byte-skip test of both searches
MayHold(byte, bit_state) == (byte > 0 /\ bit_state) \/ (byte < 255 /\ ~bit_state)

RECURSIVE find_next_in_byte_unbounded(_, _, _, _, _)
\* A faulty find_next_in_byte that scans the padding bits of the last byte too.
find_next_in_byte_unbounded(bs, num_bits, bit_index, i, bit_state) ==
    IF i < UINT8_WIDTH
    THEN IF check_bit(bs, bit_index + i) = bit_state
         THEN Found(bit_index + i)
         ELSE find_next_in_byte_unbounded(bs, num_bits, bit_index, i + 1, bit_state)
    ELSE NotFound

RECURSIVE find_next_in_byte(_, _, _, _, _)
\* for (; (i < UINT8_WIDTH) && (bit_index + i < bit_array->num_bits); ++i)
find_next_in_byte(bs, num_bits, bit_index, i, bit_state) ==
    IF (i < UINT8_WIDTH) /\ (bit_index + i < num_bits)
    THEN IF check_bit(bs, bit_index + i) = bit_state
         THEN Found(bit_index + i)
         ELSE find_next_in_byte(bs, num_bits, bit_index, i + 1, bit_state)
    ELSE NotFound

RECURSIVE find_next_from_byte(_, _, _, _, _)
\* for (byte = ...; byte < BYTES_FROM_BITS(bit_array->num_bits); ++byte)
find_next_from_byte(bs, num_bits, initial_index, byte, bit_state) ==
    IF byte < BYTES_FROM_BITS(num_bits)
    THEN LET i == IF byte = BYTE_INDEX(initial_index) THEN BIT_OFFSET(initial_index) ELSE 0
             r == IF MayHold(bs[byte + 1], bit_state)
                  THEN find_next_in_byte(bs, num_bits, byte * UINT8_WIDTH, i, bit_state)
                  ELSE NotFound
         IN  IF r.found THEN r
             ELSE find_next_from_byte(bs, num_bits, initial_index, byte + 1, bit_state)
    ELSE NotFound

\* A faulty internal_BitArray_find_next without the assert of its first line.
internal_BitArray_find_next_unchecked(hp, p, initial_index, result, bit_state) ==
    LET r == find_next_from_byte(DataOf(hp, p), NumBits(hp, p), initial_index,
                                 BYTE_INDEX(initial_index), bit_state)
    IN  IF r.found THEN Outcome(hp, 1, r.index) ELSE Outcome(hp, 0, result)

internal_BitArray_find_next(hp, p, initial_index, result, bit_state) ==
    IF ~BITARRAY_ASSERT_INDEX_IN_RANGE(hp, p, initial_index)
    THEN AssertFailed(hp, result)
    ELSE LET r == find_next_from_byte(DataOf(hp, p), NumBits(hp, p), initial_index,
                                      BYTE_INDEX(initial_index), bit_state)
         IN  IF r.found THEN Outcome(hp, 1, r.index) ELSE Outcome(hp, 0, result)

BitArray_next_set_bit(hp, p, initial_index, result) ==
    internal_BitArray_find_next(hp, p, initial_index, result, TRUE)

BitArray_next_clear_bit(hp, p, initial_index, result) ==
    internal_BitArray_find_next(hp, p, initial_index, result, FALSE)

RECURSIVE find_prev_in_byte(_, _, _, _)
\* for (; i >= 0; --i), i a (signed) char
find_prev_in_byte(bs, bit_index, i, bit_state) ==
    IF i >= 0
    THEN IF check_bit(bs, bit_index + i) = bit_state
         THEN Found(bit_index + i)
         ELSE find_prev_in_byte(bs, bit_index, i - 1, bit_state)
    ELSE NotFound

RECURSIVE find_prev_from_byte(_, _, _, _)
\* for (; byte > 0; --byte)
find_prev_from_byte(bs, initial_index, byte, bit_state) ==
    IF byte > 0
    THEN LET i == IF byte = BYTE_INDEX(initial_index)
                  THEN BIT_OFFSET(initial_index)
                  ELSE UINT8_WIDTH - 1
             r == IF MayHold(bs[byte + 1], bit_state)
                  THEN find_prev_in_byte(bs, byte * UINT8_WIDTH, i, bit_state)
                  ELSE NotFound
         IN  IF r.found THEN r
             ELSE find_prev_from_byte(bs, initial_index, byte - 1, bit_state)
    ELSE NotFound

\* The body of internal_BitArray_find_prev after its assert
find_prev(bs, initial_index, bit_state) ==
    LET r == find_prev_from_byte(bs, initial_index, BYTE_INDEX(initial_index), bit_state)
        \* "Check the 0th index separately": the loop above has left byte = 0
        byte == 0
        i == IF byte = 0 THEN BIT_OFFSET(initial_index) ELSE UINT8_WIDTH - 1
    IN  IF r.found THEN r ELSE find_prev_in_byte(bs, 0, i, bit_state)

internal_BitArray_find_prev(hp, p, initial_index, result, bit_state) ==
    IF ~BITARRAY_ASSERT_INDEX_IN_RANGE(hp, p, initial_index)
    THEN AssertFailed(hp, result)
    ELSE LET r == find_prev(DataOf(hp, p), initial_index, bit_state)
         IN  IF r.found THEN Outcome(hp, 1, r.index) ELSE Outcome(hp, 0, result)

BitArray_prev_set_bit(hp, p, initial_index, result) ==
    internal_BitArray_find_prev(hp, p, initial_index, result, TRUE)

BitArray_prev_clear_bit(hp, p, initial_index, result) ==
    internal_BitArray_find_prev(hp, p, initial_index, result, FALSE)

BitArray_first_clear_bit(hp, p, result) == BitArray_next_clear_bit(hp, p, 0, result)

BitArray_first_set_bit(hp, p, result) == BitArray_next_set_bit(hp, p, 0, result)

\* The largest index_t.  index_t is size_t, whose largest value is beyond the
\* integers of the model checker; any value that is no valid index behaves alike.
INDEX_MAX == 2147483647

\* num_bits - 1 in index_t arithmetic: 0 - 1 wraps around
LastIndex(num_bits) == IF num_bits = 0 THEN INDEX_MAX ELSE num_bits - 1

BitArray_last_clear_bit(hp, p, result) ==
    BitArray_prev_clear_bit(hp, p, LastIndex(NumBits(hp, p)), result)

BitArray_last_set_bit(hp, p, result) ==
    BitArray_prev_set_bit(hp, p, LastIndex(NumBits(hp, p)), result)

(***************************************************************************)
(* The whole-vector operators, bit_array.c lines 324-337, and the          *)
(* operators on a list of indices, lines 221-255.                          *)
(***************************************************************************)
\* A faulty BitArray_set that fills the whole buffer.
BitArray_set_memset(hp, p) ==
    IF NumBits(hp, p) = 0 THEN AssertFailed(hp, 0)
    ELSE Outcome(StoreData(hp, p, [k \in DOMAIN DataOf(hp, p) |-> SET_BYTE]), 0, 0)

BitArray_set(hp, p) ==
    internal_BitArray_operate_region(hp, p, 0, LastIndex(NumBits(hp, p)), "set")

\* A faulty BitArray_clear that returns at once when the vector has no bits.
BitArray_clear_skips_empty(hp, p) ==
    IF NumBits(hp, p) = 0 THEN Outcome(hp, 0, 0)
    ELSE internal_BitArray_operate_region(hp, p, 0, LastIndex(NumBits(hp, p)), "clear")

BitArray_clear(hp, p) ==
    internal_BitArray_operate_region(hp, p, 0, LastIndex(NumBits(hp, p)), "clear")

\* A faulty BitArray_toggle that passes BitArray_set_bit.
BitArray_toggle_as_set(hp, p) ==
    internal_BitArray_operate_region(hp, p, 0, LastIndex(NumBits(hp, p)), "set")

BitArray_toggle(hp, p) ==
    internal_BitArray_operate_region(hp, p, 0, LastIndex(NumBits(hp, p)), "toggle")

RECURSIVE operate_bits(_, _, _, _, _)
\* for (i = 0; i < num_bits_to_set; ++i) the single-bit function on va_arg();
\* indices[i + 1] is the i-th variable argument
operate_bits(hp, p, indices, i, op) ==
    IF i < Len(indices)
    THEN LET index == indices[i + 1]
             r == CASE op = "set" -> BitArray_set_bit(hp, p, index)
                    [] op = "clear" -> BitArray_clear_bit(hp, p, index)
                    [] OTHER -> BitArray_toggle_bit(hp, p, index)
         IN  IF r.crashed THEN r ELSE operate_bits(r.heap, p, indices, i + 1, op)
    ELSE Outcome(hp, 0, 0)

BitArray_set_bits(hp, p, indices) == operate_bits(hp, p, indices, 0, "set")

BitArray_clear_bits(hp, p, indices) == operate_bits(hp, p, indices, 0, "clear")

BitArray_toggle_bits(hp, p, indices) == operate_bits(hp, p, indices, 0, "toggle")

(***************************************************************************)
(* Construction from text, bit_array.c lines 104-155.  A character is its  *)
(* code as an unsigned char ('0' is 48, 'A' is 65, 'a' is 97) and a C      *)
(* string is the sequence of its characters before the terminating 0.      *)
(***************************************************************************)
\* A faulty exit that hands NULL back to the caller instead of ending the program.
Exited_returning(hp) == [heap |-> hp, crashed |-> FALSE, ret |-> 0, out |-> 0]

\* exit(EXIT_FAILURE): the program ends there, with the heap as it is at that point
Exited(hp) == [heap |-> hp, crashed |-> TRUE, ret |-> 0, out |-> 0]

\* The C string a character buffer holds: its characters before the first 0
c_str(cs) ==
    IF \E k \in DOMAIN cs : cs[k] = 0
    THEN LET end == CHOOSE k \in DOMAIN cs : cs[k] = 0 /\ \A j \in 1..(k - 1) : cs[j] # 0
         IN  [j \in 1..(end - 1) |-> cs[j]]
    ELSE cs

\* isdigit(c) and toupper(c) of <ctype.h> in the "C" locale
isdigit(c) == 48 <= c /\ c <= 57

toupper(c) == IF 97 <= c /\ c <= 122 THEN c - 32 ELSE c

RECURSIVE BitOr(_, _)
\* a | b
BitOr(a, b) ==
    IF a = 0 THEN b
    ELSE IF b = 0 THEN a
    ELSE 2 * BitOr(a \div 2, b \div 2) + MAX(a % 2, b % 2)

\* A faulty hex_val that reads the letters 'A' to 'F' as 0 to 5.
hex_val_no_ten(val) ==
    IF isdigit(val) THEN val - 48
    ELSE IF 65 <= toupper(val) /\ toupper(val) <= 70 THEN toupper(val) - 65
    ELSE -1

\* What lines 113-123 make of the character val: the value of the hex digit,
\* or -1 where the code writes "Invalid hex string" and exits
hex_val(val) ==
    IF isdigit(val) THEN val - 48
    ELSE IF 65 <= toupper(val) /\ toupper(val) <= 70 THEN 10 + (toupper(val) - 65)
    ELSE -1

\* A faulty nibble_shift that puts the first character of a pair in the lower nibble.
nibble_shift_swapped(i) == ((i + 1) % 2) * 4

\* (i & 1) * 4: the shift that selects the upper nibble of a byte for an odd i and
\* the lower one for an even i
nibble_shift(i) == (i % 2) * 4

RECURSIVE init_from_hex_loop(_, _, _, _, _)
\* The loop of BitArray_init_from_hex from i on: an outcome
init_from_hex_loop(hp, bit_array, str, digits, i) ==
    IF i > digits
    THEN Outcome(hp, bit_array, 0)
    ELSE LET val == hex_val(str[i])
         IN  IF val = -1
             THEN Exited(hp)
             ELSE LET data == DataOf(hp, bit_array)
                      \* Sets upper / lower nibbles of each byte
                      byte == BitOr(data[((i - 1) \div 2) + 1], ShiftLeft(val, nibble_shift(i)))
                  IN  init_from_hex_loop(
                          StoreData(hp, bit_array, [data EXCEPT ![((i - 1) \div 2) + 1] = byte]),
                          bit_array, str, digits, i + 1)

BitArray_init_from_hex(hp, str, malloc_fail, calloc_fail) ==
    LET digits == Len(str)
        init == BitArray_init(hp, digits * 4, malloc_fail, calloc_fail)
    IN  IF init.ret = NULL THEN init
        ELSE init_from_hex_loop(init.heap, init.ret, str, digits, 1)

RECURSIVE init_from_bin_loop(_, _, _, _, _)
\* The loop of BitArray_init_from_bin from i on: an outcome
init_from_bin_loop(hp, bit_array, str, digits, i) ==
    IF i >= digits
    THEN Outcome(hp, bit_array, 0)
    ELSE LET val == str[i + 1]
         IN  IF ~isdigit(val)
             THEN Exited(hp)
             ELSE LET stored == IF val = 48
                                THEN BitArray_clear_bit(hp, bit_array, i)
                                ELSE BitArray_set_bit(hp, bit_array, i)
                  IN  IF stored.crashed THEN stored
                      ELSE init_from_bin_loop(stored.heap, bit_array, str, digits, i + 1)

BitArray_init_from_bin(hp, str, malloc_fail, calloc_fail) ==
    LET digits == Len(str)
        init == BitArray_init(hp, digits, malloc_fail, calloc_fail)
    IN  IF init.ret = NULL THEN init
        ELSE init_from_bin_loop(init.heap, init.ret, str, digits, 0)

(***************************************************************************)
(* Counting, bit_array.c lines 339-387.                                    *)
(***************************************************************************)
BitArray_size(hp, p) == Outcome(hp, NumBits(hp, p), 0)

\* bits_set_count_table[k] is bits_set_count_table[k + 1] here
bits_set_count_table ==
    <<
        0, 1, 1, 2, 1, 2, 2, 3, 1, 2, 2, 3, 2, 3, 3, 4,
        1, 2, 2, 3, 2, 3, 3, 4, 2, 3, 3, 4, 3, 4, 4, 5,
        1, 2, 2, 3, 2, 3, 3, 4, 2, 3, 3, 4, 3, 4, 4, 5,
        2, 3, 3, 4, 3, 4, 4, 5, 3, 4, 4, 5, 4, 5, 5, 6,
        1, 2, 2, 3, 2, 3, 3, 4, 2, 3, 3, 4, 3, 4, 4, 5,
        2, 3, 3, 4, 3, 4, 4, 5, 3, 4, 4, 5, 4, 5, 5, 6,
        2, 3, 3, 4, 3, 4, 4, 5, 3, 4, 4, 5, 4, 5, 5, 6,
        3, 4, 4, 5, 4, 5, 5, 6, 4, 5, 5, 6, 5, 6, 6, 7,
        1, 2, 2, 3, 2, 3, 3, 4, 2, 3, 3, 4, 3, 4, 4, 5,
        2, 3, 3, 4, 3, 4, 4, 5, 3, 4, 4, 5, 4, 5, 5, 6,
        2, 3, 3, 4, 3, 4, 4, 5, 3, 4, 4, 5, 4, 5, 5, 6,
        3, 4, 4, 5, 4, 5, 5, 6, 4, 5, 5, 6, 5, 6, 6, 7,
        2, 3, 3, 4, 3, 4, 4, 5, 3, 4, 4, 5, 4, 5, 5, 6,
        3, 4, 4, 5, 4, 5, 5, 6, 4, 5, 5, 6, 5, 6, 6, 7,
        3, 4, 4, 5, 4, 5, 5, 6, 4, 5, 5, 6, 5, 6, 6, 7,
        4, 5, 5, 6, 5, 6, 6, 7, 5, 6, 6, 7, 6, 7, 7, 8
    >>

RECURSIVE count_full_bytes(_, _, _)
\* The first loop of BitArray_num_set_bits from byte i on
count_full_bytes(bs, num_full_bytes, i) ==
    IF i >= num_full_bytes THEN 0
    ELSE bits_set_count_table[bs[i + 1] + 1] + count_full_bytes(bs, num_full_bytes, i + 1)

RECURSIVE count_remaining_bits(_, _, _, _)
\* The second loop of BitArray_num_set_bits: remaining_bits calls of
\* BitArray_check_bit(bit_array, curr_bit_index++)
count_remaining_bits(hp, p, curr_bit_index, remaining_bits) ==
    IF remaining_bits <= 0 THEN 0
    ELSE BitArray_check_bit(hp, p, curr_bit_index).ret
             + count_remaining_bits(hp, p, curr_bit_index + 1, remaining_bits - 1)

\* A faulty BitArray_num_set_bits that looks the partial last byte up in the table too.
BitArray_num_set_bits_all_bytes(hp, p) ==
    Outcome(hp, count_full_bytes(DataOf(hp, p), BYTES_FROM_BITS(NumBits(hp, p)), 0), 0)

BitArray_num_set_bits(hp, p) ==
    LET num_full_bytes == NumBits(hp, p) \div UINT8_WIDTH
        curr_bit_index == num_full_bytes * UINT8_WIDTH
        remaining_bits == NumBits(hp, p) - curr_bit_index
    IN  Outcome(hp, count_full_bytes(DataOf(hp, p), num_full_bytes, 0)
                        + count_remaining_bits(hp, p, curr_bit_index, remaining_bits), 0)

BitArray_num_clear_bits(hp, p) ==
    Outcome(hp, NumBits(hp, p) - BitArray_num_set_bits(hp, p).ret, 0)

(***************************************************************************)
(* Text encoders, bit_array.c lines 491-541.  dst points to a character    *)
(* buffer of the caller, a block of the heap.  While a call runs the       *)
(* buffer is a record [chars, top]: its contents and the number of bytes   *)
(* from dst on the call has written into, those beyond the buffer's end    *)
(* included.                                                               *)
(***************************************************************************)
CharsBlock(cs) == [kind |-> "chars", num_bits |-> 0, data |-> NULL, bytes |-> cs]

BitArray_min_hex_str_len(hp, p) == Outcome(hp, POS_CEIL(NumBits(hp, p), 4) + 1, 0)

\* A faulty BitArray_min_bin_str_len that leaves the terminating 0 out of the count.
BitArray_min_bin_str_len_no_terminator(hp, p) == Outcome(hp, NumBits(hp, p), 0)

BitArray_min_bin_str_len(hp, p) == Outcome(hp, NumBits(hp, p) + 1, 0)

\* dst[offset] = c.  A byte stored past the end of the buffer is not in it.
store(d, offset, c) ==
    [chars |-> IF offset + 1 \in DOMAIN d.chars
               THEN [d.chars EXCEPT ![offset + 1] = c]
               ELSE d.chars,
     top |-> MAX(d.top, offset + 1)]

RECURSIVE sprintf(_, _, _)
\* sprintf(dst + offset, ...) where the format expands to text: the characters of
\* text and the terminating 0
sprintf(d, offset, text) ==
    IF text = <<>> THEN store(d, offset, 0)
    ELSE sprintf(store(d, offset, Head(text)), offset + 1, Tail(text))

\* What the conversion %X prints for a value below 256: upper-case hex digits
\* without leading zeros
hex_digit(v) == IF v < 10 THEN 48 + v ELSE 65 + (v - 10)

format_X(v) == IF v < 16 THEN <<hex_digit(v)>> ELSE <<hex_digit(v \div 16), hex_digit(v % 16)>>

RECURSIVE BitAnd(_, _)
\* a & b
BitAnd(a, b) ==
    IF a = 0 \/ b = 0 THEN 0
    ELSE 2 * BitAnd(a \div 2, b \div 2) + MIN(a % 2, b % 2)

\* x >> n
ShiftRight(x, n) == x \div (2 ^ n)

\* bit_array->data[(i - 1) / 2] & (0X0F << ((i & 1) * 4))
nibble_of(bs, i) == BitAnd(bs[((i - 1) \div 2) + 1], ShiftLeft(15, nibble_shift(i)))

RECURSIVE to_hex_str_loop(_, _, _, _)
\* The loop of BitArray_to_hex_str from i on; dst is i - 1 bytes into the buffer
to_hex_str_loop(d, bs, num_nibbles, i) ==
    IF i >= num_nibbles THEN d
    ELSE to_hex_str_loop(sprintf(d, i - 1, format_X(nibble_of(bs, i))), bs, num_nibbles, i + 1)

\* A faulty last_nibble that does not shift the bits of a partial nibble down.
last_nibble_unshifted(bs, num_bits, i) ==
    ShiftRight(nibble_of(bs, i), IF i % 2 = 1 THEN 4 ELSE 0)

\* The value the last sprintf of BitArray_to_hex_str prints, lines 520-525
last_nibble(bs, num_bits, i) ==
    LET nibble == nibble_of(bs, i)
        bits_in_last_nibble == num_bits % 4
        padded == IF bits_in_last_nibble # 0
                  THEN ShiftRight(nibble, 4 - bits_in_last_nibble)
                  ELSE nibble
    IN  ShiftRight(padded, IF i % 2 = 1 THEN 4 ELSE 0)

\* The writes of BitArray_to_hex_str on a vector that is not empty
to_hex_str(d, bs, num_bits) ==
    LET num_nibbles == (POS_CEIL(num_bits, 4) + 1) - 1
        i == MAX(num_nibbles, 1)
        looped == to_hex_str_loop(d, bs, num_nibbles, 1)
        \* sprintf(dst++, "%X\n", ...); *dst = '\0';
        printed == sprintf(looped, i - 1, format_X(last_nibble(bs, num_bits, i)) \o <<10>>)
    IN  store(printed, i, 0)

RECURSIVE to_bin_str_loop(_, _, _, _)
\* The loop of BitArray_to_bin_str from i on
to_bin_str_loop(d, hp, p, i) ==
    IF i >= BitArray_min_bin_str_len(hp, p).ret - 1 THEN d
    ELSE to_bin_str_loop(store(d, i, BitArray_check_bit(hp, p, i).ret + 48), hp, p, i + 1)

\* A call that has written the buffer at dst as d tells: it returns dst with the
\* buffer as written and out as the number of bytes it stored into, unless it
\* stored past the end of the buffer and the build traps that
Written(hp, dst, d, overflow_traps) ==
    IF d.top > Len(d.chars) /\ overflow_traps
    THEN [heap |-> hp, crashed |-> TRUE, ret |-> 0, out |-> d.top]
    ELSE Outcome([hp EXCEPT ![dst].bytes = d.chars], dst, d.top)

BitArray_to_hex_str(hp, p, dst, overflow_traps) ==
    IF dst = NULL THEN AssertFailed(hp, 0)
    ELSE LET d == [chars |-> hp[dst].bytes, top |-> 0]
         IN  IF NumBits(hp, p) = 0
             THEN Written(hp, dst, store(d, 0, 0), overflow_traps)
             ELSE Written(hp, dst, to_hex_str(d, DataOf(hp, p), NumBits(hp, p)), overflow_traps)

BitArray_to_bin_str(hp, p, dst, overflow_traps) ==
    IF dst = NULL THEN AssertFailed(hp, 0)
    ELSE LET d == to_bin_str_loop([chars |-> hp[dst].bytes, top |-> 0], hp, p, 0)
         IN  Written(hp, dst, store(d, BitArray_min_bin_str_len(hp, p).ret - 1, 0),
                     overflow_traps)

(***************************************************************************)
(* Printing, bit_array.c lines 543-579.  A call tells in out the           *)
(* characters it wrote to file_stream.                                     *)
(***************************************************************************)
\* (i % chars_per_line == 0) ? "\n" : ", "
separator(i, chars_per_line) == IF i % chars_per_line = 0 THEN <<10>> ELSE <<44, 32>>

RECURSIVE print_hex_loop(_, _, _, _)
\* The loop of BitArray_print_hex from i on
print_hex_loop(bs, num_nibbles, i, chars_per_line) ==
    IF i >= num_nibbles THEN <<>>
    ELSE format_X(ShiftRight(nibble_of(bs, i), IF i % 2 = 1 THEN 4 ELSE 0))
             \o separator(i, chars_per_line)
             \o print_hex_loop(bs, num_nibbles, i + 1, chars_per_line)

BitArray_print_hex(hp, p, chars_per_line) ==
    IF chars_per_line = 0 THEN AssertFailed(hp, <<>>)
    ELSE IF NumBits(hp, p) = 0 THEN Outcome(hp, 0, <<>>)
    ELSE LET num_nibbles == POS_CEIL(NumBits(hp, p), 4)
             i == MAX(num_nibbles, 1)
         IN  Outcome(hp, 0,
                     print_hex_loop(DataOf(hp, p), num_nibbles, 1, chars_per_line)
                         \o format_X(last_nibble(DataOf(hp, p), NumBits(hp, p), i))
                         \o <<10>>)

RECURSIVE print_bin_loop_trailing(_, _, _, _)
\* A faulty print_bin_loop that prints the separator after the last digit too.
print_bin_loop_trailing(hp, p, i, chars_per_line) ==
    IF i > NumBits(hp, p) THEN <<>>
    ELSE <<BitArray_check_bit(hp, p, i - 1).ret + 48>>
             \o separator(i, chars_per_line)
             \o print_bin_loop_trailing(hp, p, i + 1, chars_per_line)

RECURSIVE print_bin_loop(_, _, _, _)
\* The loop of BitArray_print_bin from i on
print_bin_loop(hp, p, i, chars_per_line) ==
    IF i > NumBits(hp, p) THEN <<>>
    ELSE <<BitArray_check_bit(hp, p, i - 1).ret + 48>>
             \o (IF i # NumBits(hp, p) THEN separator(i, chars_per_line) ELSE <<>>)
             \o print_bin_loop(hp, p, i + 1, chars_per_line)

BitArray_print_bin(hp, p, chars_per_line) ==
    IF chars_per_line = 0 THEN AssertFailed(hp, <<>>)
    ELSE Outcome(hp, 0, print_bin_loop(hp, p, 1, chars_per_line) \o <<10>>)

(***************************************************************************)
(* Files, bit_array.c lines 581-652.  A file is the sequence of its bytes. *)
(* The calls of <stdio.h> take their outcome as arguments: whether fopen   *)
(* or fclose fails and how many bytes the fwrite calls get into the file.  *)
(* A save or a load tells the file it leaves in the field disk of its      *)
(* outcome.                                                                *)
(***************************************************************************)
\* No file of the caller's name, and a file holding the bytes bs
NoFile == [exists |-> FALSE, bytes |-> <<>>]

File(bs) == [exists |-> TRUE, bytes |-> bs]

\* "BitArray_Data_File"
FILE_HEADER == <<66, 105, 116, 65, 114, 114, 97, 121, 95, 68, 97, 116, 97, 95, 70, 105, 108, 101>>

HEADER_LEN == 18

\* sizeof(index_t), index_t being size_t on the x86-64 of the Makefile's compiler
SIZEOF_INDEX == 8

\* The bytes of an index_t in memory, least significant first; the sizes of the
\* model are below 2^24
index_bytes(n) ==
    [k \in 1..SIZEOF_INDEX |-> IF k <= 3 THEN (n \div (256 ^ (k - 1))) % 256 ELSE 0]

RECURSIVE index_value(_)
\* The index_t that bytes in memory stand for
index_value(bs) == IF bs = <<>> THEN 0 ELSE Head(bs) + 256 * index_value(Tail(bs))

\* bs[from + 1 .. from + n], or what there is of it: fread of n bytes at offset from
fread(bs, from, n) == SubSeq(bs, from + 1, MIN(from + n, Len(bs)))

\* A faulty BitArray_save that leaves a partial last byte out of the file.
BitArray_save_full_bytes(hp, p, file, fopen_fail, written, fclose_fail) ==
    IF fopen_fail
    THEN [heap |-> hp, crashed |-> FALSE, ret |-> 0, out |-> 0, disk |-> file]
    ELSE LET num_bytes == NumBits(hp, p) \div UINT8_WIDTH
             content == FILE_HEADER \o index_bytes(NumBits(hp, p))
                            \o SubSeq(DataOf(hp, p), 1, num_bytes)
             result == written >= Len(content) /\ ~fclose_fail
         IN  [heap |-> hp, crashed |-> FALSE, ret |-> IF result THEN 1 ELSE 0, out |-> 0,
              disk |-> File(SubSeq(content, 1, MIN(written, Len(content))))]

\* written is the number of bytes the three fwrite calls get into the file, all
\* of them unless one of the calls comes up short
BitArray_save(hp, p, file, fopen_fail, written, fclose_fail) ==
    IF fopen_fail
    THEN [heap |-> hp, crashed |-> FALSE, ret |-> 0, out |-> 0, disk |-> file]
    ELSE LET num_bytes == BYTES_FROM_BITS(NumBits(hp, p))
             content == FILE_HEADER \o index_bytes(NumBits(hp, p))
                            \o SubSeq(DataOf(hp, p), 1, num_bytes)
             result == written >= Len(content) /\ ~fclose_fail
         IN  [heap |-> hp, crashed |-> FALSE, ret |-> IF result THEN 1 ELSE 0, out |-> 0,
              disk |-> File(SubSeq(content, 1, MIN(written, Len(content))))]

\* The part of BitArray_load after the size is read, lines 631-651
load_data(hp, bs, num_bits, malloc_fail, calloc_fail, fclose_fail) ==
    LET init == BitArray_init(hp, num_bits, malloc_fail, calloc_fail)
        bit_array == init.ret
        data_bytes == BYTES_FROM_BITS(num_bits)
        read == fread(bs, HEADER_LEN + SIZEOF_INDEX, data_bytes)
        \* fread stores the bytes it gets before it comes up short
        hp1 == StoreData(init.heap, bit_array,
                         memcpy(DataOf(init.heap, bit_array), read, Len(read)))
    IN  IF bit_array = NULL THEN init
        ELSE IF Len(read) # data_bytes
        THEN \* free(bit_array): the struct alone
             Outcome(Release(hp1, bit_array), NULL, 0)
        ELSE IF fclose_fail
        THEN Outcome(Release(hp1, bit_array), NULL, 0)
        ELSE Outcome(hp1, bit_array, 0)

\* A faulty BitArray_load that compares all but the last character of the header.
BitArray_load_strncmp(hp, file, fopen_fail, malloc_fail, calloc_fail, fclose_fail) ==
    IF fopen_fail \/ ~file.exists
    THEN Outcome(hp, NULL, 0)
    ELSE LET file_header == fread(file.bytes, 0, HEADER_LEN)
             size == fread(file.bytes, HEADER_LEN, SIZEOF_INDEX)
         IN  IF \/ Len(file_header) # HEADER_LEN
                \/ SubSeq(file_header, 1, HEADER_LEN - 1) # SubSeq(FILE_HEADER, 1, HEADER_LEN - 1)
             THEN Outcome(hp, NULL, 0)
             ELSE IF Len(size) # SIZEOF_INDEX
             THEN Outcome(hp, NULL, 0)
             ELSE load_data(hp, file.bytes, index_value(size),
                            malloc_fail, calloc_fail, fclose_fail)

BitArray_load(hp, file, fopen_fail, malloc_fail, calloc_fail, fclose_fail) ==
    IF fopen_fail \/ ~file.exists
    THEN Outcome(hp, NULL, 0)
    ELSE LET file_header == fread(file.bytes, 0, HEADER_LEN)
             size == fread(file.bytes, HEADER_LEN, SIZEOF_INDEX)
         IN  IF Len(file_header) # HEADER_LEN \/ c_str(file_header \o <<0>>) # FILE_HEADER
             THEN Outcome(hp, NULL, 0)
             ELSE IF Len(size) # SIZEOF_INDEX
             THEN Outcome(hp, NULL, 0)
             ELSE load_data(hp, file.bytes, index_value(size),
                            malloc_fail, calloc_fail, fclose_fail)

(***************************************************************************)
(* The caller.  A run starts with one vector, b, in any state the library  *)
(* can leave a vector in: any size up to MaxBits, any contents, padding    *)
(* bits of the last byte included (a shrinking resize leaves them set).    *)
(***************************************************************************)
NoCall ==
    [op |-> "none", h |-> "b", arg1 |-> 0, arg2 |-> 0, heap |-> <<>>,
     ptrs |-> [b |-> NULL, copy |-> NULL], ret |-> 0, out0 |-> 0, out |-> 0,
     prev |-> [op |-> "none", h |-> "b", arg1 |-> 0, arg2 |-> 0, heap |-> <<>>]]

InitVector(n, bs) ==
    /\ heap = Alloc(Alloc(<<>>, 1, StructBlock(n, 2)), 2, BytesBlock(bs))
    /\ ptrs = [b |-> 1, copy |-> NULL]
    /\ crashed = FALSE
    /\ last = NoCall

\* One call is applied to the vector drawn.
Init ==
    /\ \E n \in 0..MaxBits :
           \E bs \in [1..BYTES_FROM_BITS(n) -> ByteVals] : InitVector(n, bs)
    /\ budget = 1
    /\ disk = NoFile

\* The handle is live and the program still runs
CanCall(h) ==
    /\ ~crashed
    /\ budget > 0
    /\ ptrs[h] # NULL

\* The indices a caller passes: every valid one, and the first invalid one
IndexInputs(h) == IF ptrs[h] = NULL THEN {} ELSE 0..NumBits(heap, ptrs[h])

\* The call op(h, a1, a2) with *result = o0 before it ended as res
Recorded(op, h, a1, a2, o0, res) ==
    /\ heap' = res.heap
    /\ crashed' = res.crashed
    /\ last' = [op |-> op, h |-> h, arg1 |-> a1, arg2 |-> a2, heap |-> heap,
                ptrs |-> ptrs, ret |-> res.ret, out0 |-> o0, out |-> res.out,
                \* the call before this one, and the heap it was made on
                prev |-> [op |-> last.op, h |-> last.h, arg1 |-> last.arg1,
                          arg2 |-> last.arg2, heap |-> last.heap]]

\* A call that does not touch the file
Returned(op, h, a1, a2, o0, res) ==
    /\ Recorded(op, h, a1, a2, o0, res)
    /\ UNCHANGED disk

Call_check_bit(h, i) ==
    /\ CanCall(h)
    /\ Returned("check_bit", h, i, 0, 0, BitArray_check_bit(heap, ptrs[h], i))
    /\ budget' = budget - 1
    /\ UNCHANGED ptrs

Call_set_bit(h, i) ==
    /\ CanCall(h)
    /\ Returned("set_bit", h, i, 0, 0, BitArray_set_bit(heap, ptrs[h], i))
    /\ budget' = budget - 1
    /\ UNCHANGED ptrs

Call_clear_bit(h, i) ==
    /\ CanCall(h)
    /\ Returned("clear_bit", h, i, 0, 0, BitArray_clear_bit(heap, ptrs[h], i))
    /\ budget' = budget - 1
    /\ UNCHANGED ptrs

Call_toggle_bit(h, i) ==
    /\ CanCall(h)
    /\ Returned("toggle_bit", h, i, 0, 0, BitArray_toggle_bit(heap, ptrs[h], i))
    /\ budget' = budget - 1
    /\ UNCHANGED ptrs

Call_set_region(h, i, j) ==
    /\ CanCall(h)
    /\ Returned("set_region", h, i, j, 0, BitArray_set_region(heap, ptrs[h], i, j))
    /\ budget' = budget - 1
    /\ UNCHANGED ptrs

Call_clear_region(h, i, j) ==
    /\ CanCall(h)
    /\ Returned("clear_region", h, i, j, 0, BitArray_clear_region(heap, ptrs[h], i, j))
    /\ budget' = budget - 1
    /\ UNCHANGED ptrs

Call_toggle_region(h, i, j) ==
    /\ CanCall(h)
    /\ Returned("toggle_region", h, i, j, 0, BitArray_toggle_region(heap, ptrs[h], i, j))
    /\ budget' = budget - 1
    /\ UNCHANGED ptrs

\* BitArray_set(h)
Call_set(h) ==
    /\ CanCall(h)
    /\ Returned("set", h, 0, 0, 0, BitArray_set(heap, ptrs[h]))
    /\ budget' = budget - 1
    /\ UNCHANGED ptrs

\* BitArray_clear(h)
Call_clear(h) ==
    /\ CanCall(h)
    /\ Returned("clear", h, 0, 0, 0, BitArray_clear(heap, ptrs[h]))
    /\ budget' = budget - 1
    /\ UNCHANGED ptrs

\* BitArray_toggle(h)
Call_toggle(h) ==
    /\ CanCall(h)
    /\ Returned("toggle", h, 0, 0, 0, BitArray_toggle(heap, ptrs[h]))
    /\ budget' = budget - 1
    /\ UNCHANGED ptrs

\* The lists of indices a caller passes: none, one, two, one of them twice, and
\* a list whose second index is the first invalid one
IndexLists(h) ==
    IF ptrs[h] = NULL THEN {}
    ELSE LET n == NumBits(heap, ptrs[h])
         IN  {<<>>} \cup {<<i>> : i \in {0, n - 1} \cap 0..(n - 1)}
                   \cup {<<i, j>> : i \in {n - 1} \cap 0..(n - 1), j \in {0, n - 1, n}}

\* BitArray_set_bits(h, Len(indices), indices...)
Call_set_bits(h, indices) ==
    /\ CanCall(h)
    /\ Returned("set_bits", h, indices, 0, 0, BitArray_set_bits(heap, ptrs[h], indices))
    /\ budget' = budget - 1
    /\ UNCHANGED ptrs

\* BitArray_clear_bits(h, Len(indices), indices...)
Call_clear_bits(h, indices) ==
    /\ CanCall(h)
    /\ Returned("clear_bits", h, indices, 0, 0, BitArray_clear_bits(heap, ptrs[h], indices))
    /\ budget' = budget - 1
    /\ UNCHANGED ptrs

\* BitArray_toggle_bits(h, Len(indices), indices...)
Call_toggle_bits(h, indices) ==
    /\ CanCall(h)
    /\ Returned("toggle_bits", h, indices, 0, 0, BitArray_toggle_bits(heap, ptrs[h], indices))
    /\ budget' = budget - 1
    /\ UNCHANGED ptrs

\* The sizes a caller resizes to: 0, which is refused, and every size up to MaxBits
SizeInputs == 0..MaxBits

\* What realloc may leave in the bytes it adds when the vector of h grows to size
GarbageInputs(h, size) ==
    IF ptrs[h] = NULL THEN {}
    ELSE LET old == Len(DataOf(heap, ptrs[h]))
             new == BYTES_FROM_BITS(size)
         IN  [1..(IF new > old THEN new - old ELSE 0) -> GarbageVals]

Flag(f) == IF f THEN 1 ELSE 0

\* b = BitArray_resize(b, size), with realloc failing or not
Call_resize(h, size, realloc_fail, moved, garbage) ==
    /\ CanCall(h)
    /\ Returned("resize", h, size, Flag(realloc_fail), 0,
                BitArray_resize(heap, ptrs[h], size, realloc_fail, moved, garbage))
    /\ budget' = budget - 1
    /\ UNCHANGED ptrs

\* copy = BitArray_copy(b), with malloc or calloc failing or not.  The caller
\* copies before any other call, and copying does not count against the budget:
\* there is one handle to hold a copy.
Call_copy(malloc_fail, calloc_fail) ==
    /\ ~crashed
    /\ ptrs.b # NULL
    /\ ptrs.copy = NULL
    /\ last.op = "none"
    /\ LET res == BitArray_copy(heap, ptrs.b, malloc_fail, calloc_fail)
       IN  /\ Returned("copy", "b", Flag(malloc_fail), Flag(calloc_fail), 0, res)
           /\ ptrs' = [ptrs EXCEPT !.copy = res.ret]
    /\ UNCHANGED budget

\* BitArray_free(h); the caller drops the handle
Call_free(h) ==
    /\ CanCall(h)
    /\ Returned("free", h, 0, 0, 0, BitArray_free(heap, ptrs[h]))
    /\ ptrs' = [ptrs EXCEPT ![h] = NULL]
    /\ budget' = budget - 1

\* What *result holds before a search: two values, so that a search that
\* stores one of them is told from a search that stores nothing
ResultInputs == {0, 77}

Call_next_set_bit(h, i, o) ==
    /\ CanCall(h)
    /\ Returned("next_set_bit", h, i, 0, o, BitArray_next_set_bit(heap, ptrs[h], i, o))
    /\ budget' = budget - 1
    /\ UNCHANGED ptrs

Call_next_clear_bit(h, i, o) ==
    /\ CanCall(h)
    /\ Returned("next_clear_bit", h, i, 0, o, BitArray_next_clear_bit(heap, ptrs[h], i, o))
    /\ budget' = budget - 1
    /\ UNCHANGED ptrs

Call_prev_set_bit(h, i, o) ==
    /\ CanCall(h)
    /\ Returned("prev_set_bit", h, i, 0, o, BitArray_prev_set_bit(heap, ptrs[h], i, o))
    /\ budget' = budget - 1
    /\ UNCHANGED ptrs

Call_prev_clear_bit(h, i, o) ==
    /\ CanCall(h)
    /\ Returned("prev_clear_bit", h, i, 0, o, BitArray_prev_clear_bit(heap, ptrs[h], i, o))
    /\ budget' = budget - 1
    /\ UNCHANGED ptrs

Call_first_set_bit(h, o) ==
    /\ CanCall(h)
    /\ Returned("first_set_bit", h, 0, 0, o, BitArray_first_set_bit(heap, ptrs[h], o))
    /\ budget' = budget - 1
    /\ UNCHANGED ptrs

Call_first_clear_bit(h, o) ==
    /\ CanCall(h)
    /\ Returned("first_clear_bit", h, 0, 0, o, BitArray_first_clear_bit(heap, ptrs[h], o))
    /\ budget' = budget - 1
    /\ UNCHANGED ptrs

Call_last_set_bit(h, o) ==
    /\ CanCall(h)
    /\ Returned("last_set_bit", h, 0, 0, o, BitArray_last_set_bit(heap, ptrs[h], o))
    /\ budget' = budget - 1
    /\ UNCHANGED ptrs

Call_last_clear_bit(h, o) ==
    /\ CanCall(h)
    /\ Returned("last_clear_bit", h, 0, 0, o, BitArray_last_clear_bit(heap, ptrs[h], o))
    /\ budget' = budget - 1
    /\ UNCHANGED ptrs

\* The allocator failures a call meets, as the call's record keeps them
Faults(malloc_fail, calloc_fail) == [malloc_fail |-> malloc_fail, calloc_fail |-> calloc_fail]

\* The handle is free to take a new vector and the program still runs
CanBuild(h) ==
    /\ ~crashed
    /\ budget > 0
    /\ ptrs[h] = NULL

\* h = BitArray_init(size), with malloc or calloc failing or not
Call_init(h, size, malloc_fail, calloc_fail) ==
    /\ CanBuild(h)
    /\ LET res == BitArray_init(heap, size, malloc_fail, calloc_fail)
       IN  /\ Returned("init", h, size, Faults(malloc_fail, calloc_fail), 0, res)
           /\ ptrs' = [ptrs EXCEPT ![h] = res.ret]
    /\ budget' = budget - 1

\* h = BitArray_init_from_hex(str)
Call_init_from_hex(h, str, malloc_fail, calloc_fail) ==
    /\ CanBuild(h)
    /\ LET res == BitArray_init_from_hex(heap, str, malloc_fail, calloc_fail)
       IN  /\ Returned("init_from_hex", h, str, Faults(malloc_fail, calloc_fail), 0, res)
           /\ ptrs' = [ptrs EXCEPT ![h] = res.ret]
    /\ budget' = budget - 1

\* h = BitArray_init_from_bin(str)
Call_init_from_bin(h, str, malloc_fail, calloc_fail) ==
    /\ CanBuild(h)
    /\ LET res == BitArray_init_from_bin(heap, str, malloc_fail, calloc_fail)
       IN  /\ Returned("init_from_bin", h, str, Faults(malloc_fail, calloc_fail), 0, res)
           /\ ptrs' = [ptrs EXCEPT ![h] = res.ret]
    /\ budget' = budget - 1

Call_size(h) ==
    /\ CanCall(h)
    /\ Returned("size", h, 0, 0, 0, BitArray_size(heap, ptrs[h]))
    /\ budget' = budget - 1
    /\ UNCHANGED ptrs

Call_num_set_bits(h) ==
    /\ CanCall(h)
    /\ Returned("num_set_bits", h, 0, 0, 0, BitArray_num_set_bits(heap, ptrs[h]))
    /\ budget' = budget - 1
    /\ UNCHANGED ptrs

Call_num_clear_bits(h) ==
    /\ CanCall(h)
    /\ Returned("num_clear_bits", h, 0, 0, 0, BitArray_num_clear_bits(heap, ptrs[h]))
    /\ budget' = budget - 1
    /\ UNCHANGED ptrs

Call_min_hex_str_len(h) ==
    /\ CanCall(h)
    /\ Returned("min_hex_str_len", h, 0, 0, 0, BitArray_min_hex_str_len(heap, ptrs[h]))
    /\ budget' = budget - 1
    /\ UNCHANGED ptrs

Call_min_bin_str_len(h) ==
    /\ CanCall(h)
    /\ Returned("min_bin_str_len", h, 0, 0, 0, BitArray_min_bin_str_len(heap, ptrs[h]))
    /\ budget' = budget - 1
    /\ UNCHANGED ptrs

\* The character buffers of the caller
Buffers == {q \in DOMAIN heap : heap[q].kind = "chars"}

\* BitArray_to_hex_str(h, dst) into a buffer that has at least the
\* BitArray_min_hex_str_len(h) bytes the library asks for
Call_to_hex_str(h, dst, overflow_traps) ==
    /\ CanCall(h)
    /\ dst \in Buffers => Len(heap[dst].bytes) >= BitArray_min_hex_str_len(heap, ptrs[h]).ret
    /\ Returned("to_hex_str", h, dst, 0, 0,
                BitArray_to_hex_str(heap, ptrs[h], dst, overflow_traps))
    /\ budget' = budget - 1
    /\ UNCHANGED ptrs

\* BitArray_to_bin_str(h, dst) into a buffer that has at least the
\* BitArray_min_bin_str_len(h) bytes the library asks for
Call_to_bin_str(h, dst, overflow_traps) ==
    /\ CanCall(h)
    /\ dst \in Buffers => Len(heap[dst].bytes) >= BitArray_min_bin_str_len(heap, ptrs[h]).ret
    /\ Returned("to_bin_str", h, dst, 0, 0,
                BitArray_to_bin_str(heap, ptrs[h], dst, overflow_traps))
    /\ budget' = budget - 1
    /\ UNCHANGED ptrs

\* The buffers that hold a terminated string
Texts == {q \in Buffers : \E k \in DOMAIN heap[q].bytes : heap[q].bytes[k] = 0}

\* BitArray_print_hex(h, stream, chars_per_line) on a stream with nothing in it
Call_print_hex(h, chars_per_line) ==
    /\ CanCall(h)
    /\ Returned("print_hex", h, chars_per_line, 0, <<>>,
                BitArray_print_hex(heap, ptrs[h], chars_per_line))
    /\ budget' = budget - 1
    /\ UNCHANGED ptrs

\* BitArray_print_bin(h, stream, chars_per_line) on a stream with nothing in it
Call_print_bin(h, chars_per_line) ==
    /\ CanCall(h)
    /\ Returned("print_bin", h, chars_per_line, 0, <<>>,
                BitArray_print_bin(heap, ptrs[h], chars_per_line))
    /\ budget' = budget - 1
    /\ UNCHANGED ptrs

\* The failures of <stdio.h> and of the allocator a save or a load meets
IOFaults(fopen_fail, fclose_fail) == [fopen_fail |-> fopen_fail, fclose_fail |-> fclose_fail]

\* BitArray_save(h, file_name)
Call_save(h, fopen_fail, written, fclose_fail) ==
    /\ CanCall(h)
    /\ LET res == BitArray_save(heap, ptrs[h], disk, fopen_fail, written, fclose_fail)
       IN  /\ Recorded("save", h, IOFaults(fopen_fail, fclose_fail), written, 0, res)
           /\ disk' = res.disk
    /\ budget' = budget - 1
    /\ UNCHANGED ptrs

\* h = BitArray_load(file_name)
Call_load(h, fopen_fail, malloc_fail, calloc_fail, fclose_fail) ==
    /\ CanBuild(h)
    /\ LET res == BitArray_load(heap, disk, fopen_fail, malloc_fail, calloc_fail, fclose_fail)
       IN  /\ Returned("load", h, IOFaults(fopen_fail, fclose_fail),
                       Faults(malloc_fail, calloc_fail), 0, res)
           /\ ptrs' = [ptrs EXCEPT ![h] = res.ret]
    /\ budget' = budget - 1

(***************************************************************************)
(* The bit and region operators applied to one vector.                     *)
(***************************************************************************)
NextBits ==
    \/ \E h \in Handles : \E i \in IndexInputs(h) : Call_check_bit(h, i)
    \/ \E h \in Handles : \E i \in IndexInputs(h) : Call_set_bit(h, i)
    \/ \E h \in Handles : \E i \in IndexInputs(h) : Call_clear_bit(h, i)
    \/ \E h \in Handles : \E i \in IndexInputs(h) : Call_toggle_bit(h, i)
    \/ \E h \in Handles : \E i, j \in IndexInputs(h) : Call_set_region(h, i, j)
    \/ \E h \in Handles : \E i, j \in IndexInputs(h) : Call_clear_region(h, i, j)
    \/ \E h \in Handles : \E i, j \in IndexInputs(h) : Call_toggle_region(h, i, j)

SpecBits == Init /\ [][NextBits]_vars

(***************************************************************************)
(* The searches applied to one vector.                                     *)
(***************************************************************************)
NextFind ==
    \/ \E h \in Handles : \E i \in IndexInputs(h) : \E o \in ResultInputs :
           Call_next_set_bit(h, i, o)
    \/ \E h \in Handles : \E i \in IndexInputs(h) : \E o \in ResultInputs :
           Call_next_clear_bit(h, i, o)
    \/ \E h \in Handles : \E i \in IndexInputs(h) : \E o \in ResultInputs :
           Call_prev_set_bit(h, i, o)
    \/ \E h \in Handles : \E i \in IndexInputs(h) : \E o \in ResultInputs :
           Call_prev_clear_bit(h, i, o)
    \/ \E h \in Handles : \E o \in ResultInputs : Call_first_set_bit(h, o)
    \/ \E h \in Handles : \E o \in ResultInputs : Call_first_clear_bit(h, o)
    \/ \E h \in Handles : \E o \in ResultInputs : Call_last_set_bit(h, o)
    \/ \E h \in Handles : \E o \in ResultInputs : Call_last_clear_bit(h, o)

SpecFind == Init /\ [][NextFind]_vars

(***************************************************************************)
(* Memory management: a vector, possibly a copy of it, and one call that   *)
(* changes either of the two.                                              *)
(***************************************************************************)
\* Byte values of the initial buffers of this specification
MemByteVals == {15, 165}

InitMem ==
    /\ \E n \in 0..MaxBits :
           \E bs \in [1..BYTES_FROM_BITS(n) -> MemByteVals] : InitVector(n, bs)
    /\ budget = 1
    /\ disk = NoFile

NextMem ==
    \/ \E h \in Handles : \E size \in SizeInputs : \E moved \in BOOLEAN :
           \E garbage \in GarbageInputs(h, size) :
               Call_resize(h, size, FALSE, moved, garbage)
    \/ \E h \in Handles : \E size \in SizeInputs : Call_resize(h, size, TRUE, FALSE, <<>>)
    \/ \E malloc_fail, calloc_fail \in BOOLEAN : Call_copy(malloc_fail, calloc_fail)
    \/ \E h \in Handles : Call_free(h)
    \/ \E h \in Handles : \E i \in IndexInputs(h) : Call_set_bit(h, i)
    \/ \E h \in Handles : \E i \in IndexInputs(h) : Call_clear_bit(h, i)
    \/ \E h \in Handles : \E i \in IndexInputs(h) : Call_toggle_bit(h, i)
    \/ \E h \in Handles : \E i, j \in IndexInputs(h) : Call_set_region(h, i, j)
    \/ \E h \in Handles : \E i, j \in IndexInputs(h) : Call_clear_region(h, i, j)
    \/ \E h \in Handles : \E i, j \in IndexInputs(h) : Call_toggle_region(h, i, j)

SpecMem == InitMem /\ [][NextMem]_vars

(***************************************************************************)
(* Construction: a caller that holds nothing, or one vector, builds a      *)
(* vector from a size or from a text.                                      *)
(***************************************************************************)
MaxStrLen == 3

\* The characters of the texts: '0' '1' '9' 'F' 'G' 'a'
CharInputs == {48, 49, 57, 70, 71, 97}

RECURSIVE StringsOfLen(_)
StringsOfLen(n) ==
    IF n = 0 THEN {<<>>}
    ELSE {<<c>> \o str : c \in CharInputs, str \in StringsOfLen(n - 1)}

\* Every text of at most MaxStrLen characters
StringInputs == UNION {StringsOfLen(n) : n \in 0..MaxStrLen}

InitNew ==
    /\ \/ /\ heap = <<>>
          /\ ptrs = [b |-> NULL, copy |-> NULL]
          /\ crashed = FALSE
          /\ last = NoCall
       \/ InitVector(12, <<165, 15>>)
    /\ budget = 1
    /\ disk = NoFile

NextNew ==
    \/ \E h \in Handles : \E size \in SizeInputs : \E malloc_fail, calloc_fail \in BOOLEAN :
           Call_init(h, size, malloc_fail, calloc_fail)
    \/ \E h \in Handles : \E str \in StringInputs : \E malloc_fail, calloc_fail \in BOOLEAN :
           Call_init_from_hex(h, str, malloc_fail, calloc_fail)
    \/ \E h \in Handles : \E str \in StringInputs : \E malloc_fail, calloc_fail \in BOOLEAN :
           Call_init_from_bin(h, str, malloc_fail, calloc_fail)

SpecNew == InitNew /\ [][NextNew]_vars

(***************************************************************************)
(* Counting: every one-byte vector, and longer ones, are counted.          *)
(***************************************************************************)
\* The first byte of a buffer takes every value, the others these
CountByteVals == {15, 165}

InitCount ==
    /\ \E n \in 0..MaxBits :
           \E bs \in [1..BYTES_FROM_BITS(n) -> 0..SET_BYTE] :
               /\ \A k \in 2..Len(bs) : bs[k] \in CountByteVals
               /\ InitVector(n, bs)
    /\ budget = 1
    /\ disk = NoFile

NextCount ==
    \/ \E h \in Handles : Call_size(h)
    \/ \E h \in Handles : Call_num_set_bits(h)
    \/ \E h \in Handles : Call_num_clear_bits(h)

SpecCount == InitCount /\ [][NextCount]_vars

(***************************************************************************)
(* Text: a vector is encoded into a buffer of the caller, and the text in  *)
(* the buffer is decoded into a second vector.                             *)
(***************************************************************************)
\* Byte values of the initial buffers of this specification: between them their
\* nibbles are 0, 3, 9, A, C, E and F
TextByteVals == {0, 15, 57, 175, 206, 255}

\* What the buffer holds before the first call: nothing that ends a string
GarbageChars == {120}

\* The sizes of the caller's buffer for a vector of n bits: what
\* BitArray_min_hex_str_len and BitArray_min_bin_str_len ask for, and more
BufferSizes(n) == {POS_CEIL(n, 4) + 1, n + 1, n + 3}

InitText ==
    /\ \E n \in 0..MaxBits :
           \E bs \in [1..BYTES_FROM_BITS(n) -> TextByteVals] :
               \E size \in BufferSizes(n) : \E c \in GarbageChars :
                   /\ heap = Alloc(Alloc(Alloc(<<>>, 1, StructBlock(n, 2)), 2, BytesBlock(bs)),
                                   3, CharsBlock([k \in 1..size |-> c]))
                   /\ ptrs = [b |-> 1, copy |-> NULL]
                   /\ crashed = FALSE
                   /\ last = NoCall
    /\ budget = 2
    /\ disk = NoFile

NextText ==
    \/ \E h \in Handles : Call_min_hex_str_len(h)
    \/ \E h \in Handles : Call_min_bin_str_len(h)
    \/ \E h \in Handles : \E dst \in Buffers \cup {NULL} : \E overflow_traps \in BOOLEAN :
           Call_to_hex_str(h, dst, overflow_traps)
    \/ \E h \in Handles : \E dst \in Buffers \cup {NULL} : \E overflow_traps \in BOOLEAN :
           Call_to_bin_str(h, dst, overflow_traps)
    \/ \E h \in Handles : \E q \in Texts : \E malloc_fail, calloc_fail \in BOOLEAN :
           Call_init_from_hex(h, c_str(heap[q].bytes), malloc_fail, calloc_fail)
    \/ \E h \in Handles : \E q \in Texts : \E malloc_fail, calloc_fail \in BOOLEAN :
           Call_init_from_bin(h, c_str(heap[q].bytes), malloc_fail, calloc_fail)

SpecText == InitText /\ [][NextText]_vars

(***************************************************************************)
(* Files: a vector is saved and the file is loaded into a second vector,   *)
(* with at most one failure of the C library in each call.                 *)
(***************************************************************************)
\* Byte values of the initial buffers of this specification
FileByteVals == {15, 165}

\* What the file holds before the first call: nothing, a text ("Shall I compare
\* thee to a summers day?\n"), the start of a header ("BitArray"), or a saved
\* vector of 12 bits whose header ends in 'd' ("BitArray_Data_Fild")
FileInputs ==
    {NoFile,
     File(<<83, 104, 97, 108, 108, 32, 73, 32, 99, 111, 109, 112, 97, 114, 101, 32, 116,
            104, 101, 101, 32, 116, 111, 32, 97, 32, 115, 117, 109, 109, 101, 114, 115,
            32, 100, 97, 121, 63, 10>>),
     File(SubSeq(FILE_HEADER, 1, 8)),
     File(SubSeq(FILE_HEADER, 1, HEADER_LEN - 1) \o <<100>> \o index_bytes(12) \o <<165, 15>>)}

InitFile ==
    /\ \E n \in 0..MaxBits :
           \E bs \in [1..BYTES_FROM_BITS(n) -> FileByteVals] : InitVector(n, bs)
    /\ budget = 2
    /\ disk \in FileInputs

\* The number of bytes a save of h gets into the file: all of them, or fewer when
\* a fwrite comes up short inside the header, the size or the data
WrittenInputs(h) ==
    IF ptrs[h] = NULL THEN {}
    ELSE LET total == HEADER_LEN + SIZEOF_INDEX + BYTES_FROM_BITS(NumBits(heap, ptrs[h]))
         IN  {0, HEADER_LEN - 1, HEADER_LEN + SIZEOF_INDEX - 1, total - 1, total}

NextFile ==
    \/ \E h \in Handles : \E written \in WrittenInputs(h) : Call_save(h, FALSE, written, FALSE)
    \/ \E h \in Handles : \E written \in WrittenInputs(h) : Call_save(h, TRUE, written, FALSE)
    \/ \E h \in Handles : \E written \in WrittenInputs(h) : Call_save(h, FALSE, written, TRUE)
    \/ \E h \in Handles : Call_load(h, FALSE, FALSE, FALSE, FALSE)
    \/ \E h \in Handles : Call_load(h, TRUE, FALSE, FALSE, FALSE)
    \/ \E h \in Handles : \E malloc_fail, calloc_fail \in BOOLEAN :
           Call_load(h, FALSE, malloc_fail, calloc_fail, FALSE)
    \/ \E h \in Handles : Call_load(h, FALSE, FALSE, FALSE, TRUE)

SpecFile == InitFile /\ [][NextFile]_vars

(***************************************************************************)
(* Two calls in a row on one vector: the single-bit operators, the         *)
(* whole-vector toggle and the region toggle.                              *)
(***************************************************************************)
\* Byte values of the initial buffers of this specification
TwiceByteVals == {15, 165}

\* The bounds of the regions toggled: the first bit, a bit inside the first
\* byte, the first bit of the second byte, the last bit
RegionEnds(h) ==
    IF ptrs[h] = NULL THEN {}
    ELSE {i \in {0, 3, 8, NumBits(heap, ptrs[h]) - 1} : 0 <= i /\ i < NumBits(heap, ptrs[h])}

InitTwice ==
    /\ \E n \in 0..MaxBits :
           \E bs \in [1..BYTES_FROM_BITS(n) -> TwiceByteVals] : InitVector(n, bs)
    /\ budget = 2
    /\ disk = NoFile

NextTwice ==
    \/ \E h \in Handles : \E i \in IndexInputs(h) : Call_set_bit(h, i)
    \/ \E h \in Handles : \E i \in IndexInputs(h) : Call_clear_bit(h, i)
    \/ \E h \in Handles : \E i \in IndexInputs(h) : Call_toggle_bit(h, i)
    \/ \E h \in Handles : Call_toggle(h)
    \/ \E h \in Handles : \E i, j \in RegionEnds(h) : Call_toggle_region(h, i, j)

SpecTwice == InitTwice /\ [][NextTwice]_vars

(***************************************************************************)
(* Printing: one vector is printed, with every line width from 0, which is *)
(* refused, to one more than its number of bits.                           *)
(***************************************************************************)
\* Byte values of the initial buffers of this specification
PrintByteVals == {15, 57, 175, 206}

WidthInputs(h) == IF ptrs[h] = NULL THEN {} ELSE 0..(NumBits(heap, ptrs[h]) + 1)

InitPrint ==
    /\ \E n \in 0..MaxBits :
           \E bs \in [1..BYTES_FROM_BITS(n) -> PrintByteVals] : InitVector(n, bs)
    /\ budget = 1
    /\ disk = NoFile

NextPrint ==
    \/ \E h \in Handles : \E chars_per_line \in WidthInputs(h) :
           Call_print_hex(h, chars_per_line)
    \/ \E h \in Handles : \E chars_per_line \in WidthInputs(h) :
           Call_print_bin(h, chars_per_line)

SpecPrint == InitPrint /\ [][NextPrint]_vars

(***************************************************************************)
(* The life of a vector: a caller that holds nothing, or one vector,       *)
(* builds, loads, copies, resizes, frees, changes and queries vectors,     *)
(* three calls in a row, with the allocator or the C library failing or    *)
(* not.                                                                    *)
(***************************************************************************)
\* The sizes a vector is built with and resized to
LifeSizes == {0, 1, 12, MaxBits}

\* The texts a vector is built from: "", "A5F", "101" and "1G"
LifeTexts == {<<>>, <<65, 53, 70>>, <<49, 48, 49>>, <<49, 71>>}

\* The failures of malloc and calloc: none, the first, the second
LifeFaults == {Faults(FALSE, FALSE), Faults(TRUE, FALSE), Faults(FALSE, TRUE)}

\* The indices passed: the first bit, the last bit, the first invalid index
IndexEnds(h) ==
    IF ptrs[h] = NULL THEN {}
    ELSE {i \in {0, NumBits(heap, ptrs[h]) - 1, NumBits(heap, ptrs[h])} : i >= 0}

\* What realloc leaves in the bytes it adds, in this specification
LifeGarbage(h, size) == {g \in GarbageInputs(h, size) : \A k \in DOMAIN g : g[k] = 165}

InitLife ==
    /\ \/ /\ heap = <<>>
          /\ ptrs = [b |-> NULL, copy |-> NULL]
          /\ crashed = FALSE
          /\ last = NoCall
       \/ InitVector(12, <<165, 15>>)
    /\ budget = 3
    /\ disk \in {NoFile,
                 File(FILE_HEADER \o index_bytes(9) \o <<165, 255>>),
                 File(FILE_HEADER \o index_bytes(9) \o <<165>>)}

NextLife ==
    \/ \E h \in Handles : \E size \in LifeSizes : \E f \in LifeFaults :
           Call_init(h, size, f.malloc_fail, f.calloc_fail)
    \/ \E h \in Handles : \E str \in LifeTexts : \E f \in LifeFaults :
           Call_init_from_hex(h, str, f.malloc_fail, f.calloc_fail)
    \/ \E h \in Handles : \E str \in LifeTexts : \E f \in LifeFaults :
           Call_init_from_bin(h, str, f.malloc_fail, f.calloc_fail)
    \/ \E h \in Handles : \E f \in LifeFaults :
           Call_load(h, FALSE, f.malloc_fail, f.calloc_fail, FALSE)
    \/ \E h \in Handles : Call_load(h, FALSE, FALSE, FALSE, TRUE)
    \/ \E h \in Handles : Call_load(h, TRUE, FALSE, FALSE, FALSE)
    \/ \E f \in LifeFaults : Call_copy(f.malloc_fail, f.calloc_fail)
    \/ \E h \in Handles : \E size \in LifeSizes : \E moved \in BOOLEAN :
           \E garbage \in LifeGarbage(h, size) : Call_resize(h, size, FALSE, moved, garbage)
    \/ \E h \in Handles : \E size \in LifeSizes : Call_resize(h, size, TRUE, FALSE, <<>>)
    \/ \E h \in Handles : Call_free(h)
    \/ \E h \in Handles : \E i \in IndexEnds(h) : Call_set_bit(h, i)
    \/ \E h \in Handles : \E i \in IndexEnds(h) : Call_toggle_bit(h, i)
    \/ \E h \in Handles : \E i, j \in IndexEnds(h) : Call_set_region(h, i, j)
    \/ \E h \in Handles : Call_clear(h)
    \/ \E h \in Handles : Call_toggle(h)
    \/ \E h \in Handles : \E i \in IndexEnds(h) : Call_check_bit(h, i)
    \/ \E h \in Handles : Call_size(h)
    \/ \E h \in Handles : Call_num_set_bits(h)
    \/ \E h \in Handles : \E o \in ResultInputs : Call_next_set_bit(h, 0, o)

SpecLife == InitLife /\ [][NextLife]_vars

(***************************************************************************)
(* Every operator that sets, clears or toggles, on one bit, a list of      *)
(* bits, a region or the whole vector, applied to one vector, and the      *)
(* constructors, which build a second vector.                              *)
(***************************************************************************)
NextWhole ==
    \/ \E h \in Handles : Call_set(h)
    \/ \E h \in Handles : Call_clear(h)
    \/ \E h \in Handles : Call_toggle(h)
    \/ \E h \in Handles : \E indices \in IndexLists(h) : Call_set_bits(h, indices)
    \/ \E h \in Handles : \E indices \in IndexLists(h) : Call_clear_bits(h, indices)
    \/ \E h \in Handles : \E indices \in IndexLists(h) : Call_toggle_bits(h, indices)
    \/ \E h \in Handles : \E i \in IndexInputs(h) : Call_set_bit(h, i)
    \/ \E h \in Handles : \E i \in IndexInputs(h) : Call_clear_bit(h, i)
    \/ \E h \in Handles : \E i \in IndexInputs(h) : Call_toggle_bit(h, i)
    \/ \E h \in Handles : \E i, j \in IndexInputs(h) : Call_set_region(h, i, j)
    \/ \E h \in Handles : \E i, j \in IndexInputs(h) : Call_clear_region(h, i, j)
    \/ \E h \in Handles : \E i, j \in IndexInputs(h) : Call_toggle_region(h, i, j)
    \/ \E h \in Handles : \E size \in LifeSizes : Call_init(h, size, FALSE, FALSE)
    \/ \E h \in Handles : \E str \in LifeTexts : Call_init_from_hex(h, str, FALSE, FALSE)
    \/ \E h \in Handles : \E str \in LifeTexts : Call_init_from_bin(h, str, FALSE, FALSE)

SpecWhole == Init /\ [][NextWhole]_vars

(***************************************************************************)
(* The whole caller: any one call of the library on a vector drawn by Init,*)
(* after an optional copy.                                                 *)
(***************************************************************************)
Next == NextBits \/ NextFind \/ NextMem

Spec == Init /\ [][Next]_vars

(***************************************************************************)
(* Vocabulary of the properties.  The bit layout is restated here from the *)
(* documentation, independently of GET_MASK: bit i is bit 7 - i mod 8,     *)
(* counted from the least significant one, of byte i div 8.                *)
(***************************************************************************)
BitAt(bs, i) == (bs[(i \div 8) + 1] \div (2 ^ (7 - (i % 8)))) % 2 = 1

\* Every bit position of a buffer, padding bits of the last byte included
Positions(bs) == 0..(8 * Len(bs) - 1)

\* The vector the last call was made on, before and after the call
PreStruct == last.heap[last.ptrs[last.h]]
PreBits == PreStruct.num_bits
PreData == last.heap[PreStruct.data].bytes
PostStruct == heap[ptrs[last.h]]
PostData == heap[PostStruct.data].bytes

BitOps == {"set_bit", "clear_bit", "toggle_bit"}
RegionOps == {"set_region", "clear_region", "toggle_region"}

\* What the single-bit operation behind a call makes of a bit of value v
Applied(op, v) ==
    CASE op \in {"set_bit", "set_region"} -> TRUE
      [] op \in {"clear_bit", "clear_region"} -> FALSE
      [] op \in {"toggle_bit", "toggle_region"} -> ~v

\* The last call left the vector as the single-bit operation applied to exactly
\* the indices lo..hi would: same struct, same buffer length, every other bit kept
ChangedExactly(lo, hi) ==
    /\ ~crashed
    /\ ptrs = last.ptrs
    /\ DOMAIN heap = DOMAIN last.heap
    /\ PostStruct = PreStruct
    /\ Len(PostData) = Len(PreData)
    /\ \A i \in Positions(PreData) :
           BitAt(PostData, i) = IF lo <= i /\ i <= hi
                                THEN Applied(last.op, BitAt(PreData, i))
                                ELSE BitAt(PreData, i)

\* C1: a region operation with in-range start <= end changes the vector exactly
\* as the single-bit operation applied to every index of [start, end] would, and
\* keeps every bit outside the region, whatever bytes the region spans.
C1_RegionIsBitwise ==
    (last.op \in RegionOps /\ last.arg1 <= last.arg2 /\ last.arg2 < PreBits)
        => ChangedExactly(last.arg1, last.arg2)

\* A toggle over a partial head byte, a whole body byte and a partial tail byte
C1_Witness ==
    /\ last.op = "toggle_region"
    /\ last.arg1 = 3
    /\ last.arg2 = 16
    /\ ~crashed
    /\ PreData = <<165, 15, 255>>
    /\ PostData = <<186, 240, 127>>

\* C2: a region operation called with (a, b) operates on [min(a,b), max(a,b)]
\* whatever the order of the two bounds.
C2_RegionSymmetric ==
    (last.op \in RegionOps /\ last.arg1 < PreBits /\ last.arg2 < PreBits)
        => ChangedExactly(MIN(last.arg1, last.arg2), MAX(last.arg1, last.arg2))

\* C6: bit i lives in byte i div 8 under mask 1 << (7 - i mod 8); set_bit makes
\* it 1, clear_bit 0, toggle_bit negates it, check_bit reads it; no other bit
\* and not num_bits changes.
C6_SingleBit ==
    /\ (last.op \in BitOps /\ last.arg1 < PreBits)
           => /\ ChangedExactly(last.arg1, last.arg1)
              /\ check_bit(PostData, last.arg1) = Applied(last.op, BitAt(PreData, last.arg1))
    /\ (last.op = "check_bit" /\ last.arg1 < PreBits)
           => /\ ~crashed
              /\ heap = last.heap
              /\ (last.ret = 1) = BitAt(PreData, last.arg1)

\* set_bit on the last bit of the second byte of a vector with a partial third byte
C6_Witness ==
    /\ last.op = "set_bit"
    /\ last.arg1 = 15
    /\ PreBits = 17
    /\ PreData = <<0, 0, 0>>
    /\ PostData = <<0, 1, 0>>

\* C7: in the checked build a single-bit call with an index >= num_bits, and a
\* region call with either bound >= num_bits, ends in a failed assert with the
\* vector exactly as it was.
C7_OutOfRangeIsFatal ==
    (\/ last.op \in BitOps \cup {"check_bit"} /\ last.arg1 >= PreBits
     \/ last.op \in RegionOps /\ (last.arg1 >= PreBits \/ last.arg2 >= PreBits))
        => /\ crashed
           /\ heap = last.heap
           /\ ptrs = last.ptrs

\* set_region whose start is valid and whose end is the first invalid index
C7_Witness ==
    /\ last.op = "set_region"
    /\ PreBits = 12
    /\ last.arg1 = 4
    /\ last.arg2 = 12
    /\ crashed
    /\ PreData = <<0, 15>>

SetSearches == {"next_set_bit", "prev_set_bit", "first_set_bit", "last_set_bit"}
NextSearches == {"next_set_bit", "next_clear_bit", "first_set_bit", "first_clear_bit"}
PrevSearches == {"prev_set_bit", "prev_clear_bit"}
LastSearches == {"last_set_bit", "last_clear_bit"}

\* The indices of lo..hi whose bit, before the last call, has the state searched for
Matching(lo, hi) == {i \in lo..hi : BitAt(PreData, i) = (last.op \in SetSearches)}

Least(S) == CHOOSE i \in S : \A j \in S : i <= j

Greatest(S) == CHOOSE i \in S : \A j \in S : i >= j

\* The last call, a search, changed nothing and reported pick(S) when S has an
\* index, and otherwise not-found with *result as it was
Reported(S, pick(_)) ==
    /\ ~crashed
    /\ heap = last.heap
    /\ ptrs = last.ptrs
    /\ IF S # {}
       THEN last.ret = 1 /\ last.out = pick(S)
       ELSE last.ret = 0 /\ last.out = last.out0

\* C3: on a non-empty vector, next_set_bit / next_clear_bit from an in-range index
\* report the least index >= from, and < num_bits, whose bit has the state searched
\* for; with none they report not-found and leave *result alone, also when padding
\* bits of the last byte have that state.  first_* is the search from 0.
C3_FindNext ==
    (last.op \in NextSearches /\ last.arg1 < PreBits)
        => Reported(Matching(last.arg1, PreBits - 1), Least)

\* No bit of the vector is set, the padding bits of its last byte are
C3_Witness ==
    /\ last.op = "next_set_bit"
    /\ PreBits = 12
    /\ PreData = <<0, 15>>
    /\ last.arg1 = 3
    /\ last.out0 = 77
    /\ last.ret = 0
    /\ last.out = 77

\* C4: on a non-empty vector, prev_set_bit / prev_clear_bit from an in-range index
\* report the greatest index <= from whose bit has the state searched for, and
\* not-found only when no index of [0, from] has it.
C4_FindPrev ==
    (last.op \in PrevSearches /\ last.arg1 < PreBits)
        => Reported(Matching(0, last.arg1), Greatest)

\* C5: on a non-empty vector, last_set_bit / last_clear_bit report the greatest
\* index of the vector whose bit is set / clear, and not-found exactly when no
\* bit of the vector has that state.
C5_FindLast ==
    (last.op \in LastSearches /\ PreBits > 0)
        => Reported(Matching(0, PreBits - 1), Greatest)

PostBits == PostStruct.num_bits

\* C8: after a successful resize num_bits is the new size, every bit below
\* min(old, new) keeps its value and, when the vector grew, every bit of
\* [old, new) reads 0, whatever the buffer held before beyond the old size and
\* whatever realloc left in the bytes it added.
C8_ResizeKeepsAndClears ==
    (last.op = "resize" /\ last.ret # NULL)
        => /\ ~crashed
           /\ last.ret = ptrs[last.h]
           /\ PostBits = last.arg1
           /\ \A i \in 0..(MIN(PreBits, PostBits) - 1) :
                  BitAt(PostData, i) = BitAt(PreData, i)
           /\ \A i \in PreBits..(PostBits - 1) : ~BitAt(PostData, i)

\* A 12-bit vector with its 4 padding bits set grows to 17 bits into a moved
\* block whose added byte holds 0xFF
C8_Witness ==
    /\ last.op = "resize"
    /\ last.ret # NULL
    /\ PreBits = 12
    /\ PreData = <<165, 15>>
    /\ PostBits = 17
    /\ PostData = <<165, 0, 127>>
    /\ PostStruct.data # PreStruct.data

\* C9: resize returns NULL exactly when realloc fails or the size asked for is
\* 0, and then the vector keeps its num_bits and every bit, and both of its
\* blocks stay allocated.
C9_FailedResizeKeepsVector ==
    last.op = "resize"
        => /\ (last.ret = NULL) = (last.arg1 = 0 \/ last.arg2 = 1)
           /\ last.ret = NULL
                  => /\ ~crashed
                     /\ heap = last.heap
                     /\ ptrs = last.ptrs

\* realloc fails while a 12-bit vector is asked to grow
C9_Witness ==
    /\ last.op = "resize"
    /\ last.arg1 = 17
    /\ last.arg2 = 1
    /\ last.ret = NULL
    /\ PreBits = 12
    /\ PostData = <<165, 15>>

Other(h) == IF h = "b" THEN "copy" ELSE "b"

Mutators == BitOps \cup RegionOps \cup {"resize", "free"}

\* C10: a successful copy is a new vector with the num_bits and the bytes of the
\* original in blocks of its own; a failed copy returns NULL and allocates
\* nothing; either way the original is unchanged.  Afterwards a set, clear,
\* toggle, region operation, resize or free of one of the two vectors leaves the
\* num_bits and the bytes of the other unchanged.
C10_CopyIsIndependent ==
    /\ last.op = "copy"
           => /\ ~crashed
              /\ ptrs.b = last.ptrs.b
              /\ ptrs.copy = last.ret
              /\ \A q \in DOMAIN last.heap : q \in DOMAIN heap /\ heap[q] = last.heap[q]
              /\ IF last.ret = NULL
                 THEN heap = last.heap
                 ELSE /\ last.ret \notin DOMAIN last.heap
                      /\ heap[last.ret].kind = "BitArray"
                      /\ heap[last.ret].num_bits = heap[ptrs.b].num_bits
                      /\ heap[last.ret].data \notin DOMAIN last.heap
                      /\ heap[last.ret].data # last.ret
                      /\ heap[heap[last.ret].data].bytes = heap[heap[ptrs.b].data].bytes
              /\ (last.ret = NULL) = (last.arg1 = 1 \/ last.arg2 = 1)
    /\ (last.op \in Mutators /\ last.ptrs[Other(last.h)] # NULL)
           => LET q == last.ptrs[Other(last.h)]
              IN  /\ ptrs[Other(last.h)] = q
                  /\ q \in DOMAIN heap
                  /\ heap[q] = last.heap[q]
                  /\ heap[q].data \in DOMAIN heap
                  /\ heap[heap[q].data] = last.heap[heap[q].data]

\* The original of a copy is toggled over its three bytes; the copy keeps its bytes
C10_Witness ==
    /\ last.op = "toggle_region"
    /\ last.h = "b"
    /\ last.arg1 = 2
    /\ last.arg2 = 16
    /\ ptrs.copy # NULL
    /\ heap[heap[ptrs.copy].data].bytes = <<165, 15, 165>>
    /\ PreData = <<165, 15, 165>>
    /\ PostData = <<154, 240, 37>>

\* The vector a constructor returned, and its buffer
NewStruct == heap[last.ret]
NewData == heap[NewStruct.data].bytes

\* The last call, a constructor, returned a new vector of n bits in two blocks of
\* its own and left every block that was there as it was
BuiltNew(n) ==
    /\ ~crashed
    /\ last.ret # NULL
    /\ ptrs = [last.ptrs EXCEPT ![last.h] = last.ret]
    /\ last.ret \notin DOMAIN last.heap
    /\ last.ret \in DOMAIN heap
    /\ NewStruct.kind = "BitArray"
    /\ NewStruct.num_bits = n
    /\ NewStruct.data \notin DOMAIN last.heap \cup {NULL, last.ret}
    /\ NewStruct.data \in DOMAIN heap
    /\ heap[NewStruct.data].kind = "bytes"
    /\ Len(NewData) = (n + 7) \div 8
    /\ DOMAIN heap = DOMAIN last.heap \cup {last.ret, NewStruct.data}
    /\ \A q \in DOMAIN last.heap : heap[q] = last.heap[q]

\* The last call, a constructor, returned NULL and left the heap as it was
BuiltNothing ==
    /\ ~crashed
    /\ last.ret = NULL
    /\ ptrs = last.ptrs
    /\ heap = last.heap

AllocationFailed == last.arg2.malloc_fail \/ last.arg2.calloc_fail

\* C11: BitArray_init(n) returns, for every n >= 0, a vector of n bits whose
\* buffer of ceil(n/8) bytes is all zero (to_bin_str gives n characters '0', the
\* count of set bits is 0); when malloc or calloc fails it returns NULL and
\* leaves nothing allocated.
C11_InitIsZeroed ==
    last.op = "init"
        => IF AllocationFailed
           THEN BuiltNothing
           ELSE /\ BuiltNew(last.arg1)
                /\ \A i \in Positions(NewData) : ~BitAt(NewData, i)
                /\ BitArray_num_set_bits(heap, last.ret).ret = 0
                /\ c_str(to_bin_str_loop([chars |-> [k \in 1..(last.arg1 + 1) |-> 0], top |-> 0],
                                         heap, last.ret, 0).chars)
                       = [k \in 1..last.arg1 |-> 48]

\* BitArray_init(0) next to a vector the caller already holds
C11_Witness ==
    /\ last.op = "init"
    /\ last.arg1 = 0
    /\ last.h = "copy"
    /\ ~AllocationFailed
    /\ last.ret = 3
    /\ heap[3] = StructBlock(0, 4)
    /\ heap[4] = BytesBlock(<<>>)
    /\ heap[2] = BytesBlock(<<165, 15>>)

\* The indices of the vector the last call was made on whose bit is set
SetIndices == {i \in 0..(PreBits - 1) : BitAt(PreData, i)}

\* C12: num_set_bits is the number of indices below num_bits whose bit is set,
\* whatever num_bits is and whatever the padding bits of the last byte hold, and
\* num_set_bits + num_clear_bits is num_bits.
C12_CountIsBruteForce ==
    /\ last.op = "num_set_bits"
           => /\ ~crashed
              /\ heap = last.heap
              /\ last.ret = Cardinality(SetIndices)
    /\ last.op = "num_clear_bits"
           => /\ ~crashed
              /\ heap = last.heap
              /\ last.ret = Cardinality((0..(PreBits - 1)) \ SetIndices)
              /\ last.ret + BitArray_num_set_bits(heap, ptrs[last.h]).ret = PreBits

\* A 12-bit vector with three bits set and its four padding bits set
C12_Witness ==
    /\ last.op = "num_set_bits"
    /\ PreBits = 12
    /\ PreData = <<7, 15>>
    /\ last.ret = 3

\* The buffer the last call, an encoder, was given, before and after the call
PreText == last.heap[last.arg1].bytes
PostText == heap[last.arg1].bytes

\* The last call, an encoder, kept every store inside its buffer
HadRoom == last.arg1 # NULL /\ last.out <= Len(PreText)

RECURSIVE ValueOfBits(_, _, _)
\* The number whose binary digits are the bits lo..hi of a buffer, bit lo first
ValueOfBits(bs, lo, hi) ==
    IF lo > hi THEN 0
    ELSE 2 * ValueOfBits(bs, lo, hi - 1) + (IF BitAt(bs, hi) THEN 1 ELSE 0)

\* "0123456789ABCDEF"
HexChars == <<48, 49, 50, 51, 52, 53, 54, 55, 56, 57, 65, 66, 67, 68, 69, 70>>

\* The hex text of the first n bits of a buffer: one digit per group of four
\* bits, the last group possibly shorter
HexText(bs, n) ==
    [j \in 1..((n + 3) \div 4) |->
        HexChars[ValueOfBits(bs, 4 * (j - 1), MIN(4 * j, n) - 1) + 1]]

\* The last call, an encoder, returned dst, left in it the string text and
\* changed nothing else
Encoded(text) ==
    /\ ~crashed
    /\ last.ret = last.arg1
    /\ ptrs = last.ptrs
    /\ DOMAIN heap = DOMAIN last.heap
    /\ \A q \in DOMAIN heap \ {last.arg1} : heap[q] = last.heap[q]
    /\ Len(PostText) = Len(PreText)
    /\ c_str(PostText) = text
    /\ Len(text) < Len(PostText)

\* C13: for a vector that is not empty, to_hex_str writes ceil(num_bits / 4)
\* upper-case hex digits, first nibble first; a last group of k < 4 bits is
\* printed as the value of those k bits (1010111 gives "A7"), and no padding bit
\* of the last byte shows in any digit.  The buffer has room for every byte the
\* call stores.
C13_HexDigits ==
    (last.op = "to_hex_str" /\ PreBits > 0 /\ HadRoom)
        => Encoded(HexText(PreData, PreBits))

\* The seven bits 1010111 before a padding bit that is set: "A7"
C13_Witness ==
    /\ last.op = "to_hex_str"
    /\ PreBits = 7
    /\ PreData = <<175>>
    /\ HadRoom
    /\ c_str(PostText) = <<65, 55>>

\* C14: a buffer of min_hex_str_len = ceil(num_bits / 4) + 1 bytes is enough for
\* to_hex_str and one of min_bin_str_len = num_bits + 1 bytes for to_bin_str: no
\* call stores a byte at an offset of dst that is not below that length.
C14_MinLenSuffices ==
    /\ (last.op = "to_hex_str" /\ last.arg1 # NULL)
           => /\ ~crashed
              /\ last.out <= ((PreBits + 3) \div 4) + 1
    /\ (last.op = "to_bin_str" /\ last.arg1 # NULL)
           => /\ ~crashed
              /\ last.out <= PreBits + 1

\* The text the last call, a decoder, was given
Str == last.arg1

\* The hex digits and what they stand for: "0123456789", "ABCDEF", "abcdef"
IsHexChar(c) == c \in (48..57) \cup (65..70) \cup (97..102)

HexValueOf(c) ==
    CASE c \in 48..57 -> c - 48
      [] c \in 65..70 -> c - 55
      [] c \in 97..102 -> c - 87

\* C15: from a text of hex digits of either case, init_from_hex builds a vector of
\* 4 * len bits whose bits 4j..4j+3 are the value of character j, first bit first
\* (the empty text gives a vector of no bits); a text with any other character
\* gives no vector.
C15_FromHex ==
    (last.op = "init_from_hex" /\ ~AllocationFailed)
        => IF \A j \in DOMAIN Str : IsHexChar(Str[j])
           THEN /\ BuiltNew(4 * Len(Str))
                /\ \A j \in DOMAIN Str :
                       ValueOfBits(NewData, 4 * (j - 1), 4 * j - 1) = HexValueOf(Str[j])
           ELSE /\ last.ret = NULL
                /\ ptrs = last.ptrs

\* "a9F" gives the twelve bits 1010 1001 1111 in two bytes
C15_Witness ==
    /\ last.op = "init_from_hex"
    /\ Str = <<97, 57, 70>>
    /\ ~crashed
    /\ NewStruct.num_bits = 12
    /\ NewData = <<169, 240>>

\* C16: init_from_bin builds a vector only from a text whose every character is
\* '0' or '1', with bit i set exactly when character i is '1'; a text with any
\* other character, a letter or one of the digits '2' to '9', gives no vector.
C16_FromBin ==
    (last.op = "init_from_bin" /\ ~AllocationFailed)
        => IF \A j \in DOMAIN Str : Str[j] \in {48, 49}
           THEN /\ BuiltNew(Len(Str))
                /\ \A j \in DOMAIN Str : BitAt(NewData, j - 1) = (Str[j] = 49)
           ELSE /\ last.ret = NULL
                /\ ptrs = last.ptrs

Decoders == {"init_from_hex", "init_from_bin"}

\* C17, as claimed: a character that is not a hex digit met by init_from_hex, or
\* one that is not '0' or '1' met by init_from_bin, is a failure the caller gets
\* back: the call returns instead of ending the program.
C17_InvalidTextReturns ==
    (/\ last.op \in Decoders
     /\ ~AllocationFailed
     /\ \/ last.op = "init_from_hex" /\ \E j \in DOMAIN Str : ~IsHexChar(Str[j])
        \/ last.op = "init_from_bin" /\ \E j \in DOMAIN Str : Str[j] \notin {48, 49})
        => ~crashed

\* The text has a character the decoder refuses: for init_from_hex one that is not
\* a hex digit, for init_from_bin one that is not a decimal digit
Refused ==
    \/ last.op = "init_from_hex" /\ \E j \in DOMAIN Str : ~IsHexChar(Str[j])
    \/ last.op = "init_from_bin" /\ \E j \in DOMAIN Str : Str[j] \notin 48..57

\* C17, amended: a character init_from_hex or init_from_bin refuses is fatal: the
\* call ends the program with exit() and does not return.  Only a failed
\* allocation, which is met before any character is read, comes back to the
\* caller, as NULL with nothing allocated.
C17_InvalidTextIsFatal ==
    last.op \in Decoders
        => /\ AllocationFailed => BuiltNothing
           /\ (~AllocationFailed /\ Refused) => (crashed /\ ptrs = last.ptrs)
           /\ (~crashed /\ last.ret = NULL) => AllocationFailed

\* "FG": the second character is no hex digit
C17_Witness ==
    /\ last.op = "init_from_hex"
    /\ Str = <<70, 71>>
    /\ ~AllocationFailed
    /\ crashed
    /\ ptrs = last.ptrs

\* The vector b as it was before the last call
Original == last.heap[last.ptrs.b]
OriginalData == last.heap[Original.data].bytes

\* The heap before the last call with one more buffer, which has room for either
\* text of b
Room == NewPtr(last.heap)
WithRoom == Alloc(last.heap, Room, CharsBlock([k \in 1..(Original.num_bits + 3) |-> 0]))

\* The string to_hex_str leaves for b in a buffer that has room for it
HexTextOfOriginal ==
    c_str(BitArray_to_hex_str(WithRoom, last.ptrs.b, Room, FALSE).heap[Room].bytes)

\* The last call built a vector with the num_bits and the bits of b
BuiltEqual ==
    /\ BuiltNew(Original.num_bits)
    /\ \A i \in 0..(Original.num_bits - 1) : BitAt(NewData, i) = BitAt(OriginalData, i)

\* C18: for a vector b whose num_bits is a multiple of 4, init_from_hex of the
\* text to_hex_str gives for b builds a vector with the num_bits of b and the
\* same value at every index, for an odd number of nibbles and for none as well.
C18_HexRoundTrip ==
    (/\ last.op = "init_from_hex"
     /\ ~AllocationFailed
     /\ last.ptrs.b # NULL
     /\ Original.num_bits % 4 = 0
     /\ Str = HexTextOfOriginal)
        => BuiltEqual

\* Twelve bits, three nibbles "AFC", before four padding bits that are set
C18_Witness ==
    /\ last.op = "init_from_hex"
    /\ last.h = "copy"
    /\ OriginalData = <<175, 206>>
    /\ Original.num_bits = 12
    /\ Str = <<65, 70, 67>>
    /\ Len(last.heap[3].bytes) = 15
    /\ NewData = <<175, 192>>

\* The string to_bin_str leaves for b in a buffer that has room for it
BinTextOfOriginal ==
    c_str(BitArray_to_bin_str(WithRoom, last.ptrs.b, Room, FALSE).heap[Room].bytes)

\* C19: to_bin_str writes num_bits characters, character i being '1' exactly when
\* bit i is set, for a vector of any size; init_from_bin of that text builds a
\* vector with the same num_bits and the same value at every index.
C19_BinRoundTrip ==
    /\ (last.op = "to_bin_str" /\ last.arg1 # NULL)
           => Encoded([j \in 1..PreBits |-> IF BitAt(PreData, j - 1) THEN 49 ELSE 48])
    /\ (/\ last.op = "init_from_bin"
        /\ ~AllocationFailed
        /\ last.ptrs.b # NULL
        /\ Str = BinTextOfOriginal)
           => BuiltEqual

\* The seven bits "1010111" before a padding bit that is set
C19_Witness ==
    /\ last.op = "init_from_bin"
    /\ last.h = "copy"
    /\ Original.num_bits = 7
    /\ OriginalData = <<175>>
    /\ Str = <<49, 48, 49, 48, 49, 49, 49>>
    /\ Len(last.heap[3].bytes) = 8
    /\ NewData = <<174>>

\* The file a save of b without a failure leaves
SavedOriginal ==
    BitArray_save(last.heap, last.ptrs.b, NoFile, FALSE,
                  HEADER_LEN + SIZEOF_INDEX + Len(OriginalData), FALSE).disk

\* The format of the file restated: the 18 characters "BitArray_Data_File", the
\* size as the 8 bytes of a little-endian integer, the bytes of the buffer
FileOf(num_bits, bs) ==
    File(<<66, 105, 116, 65, 114, 114, 97, 121, 95, 68, 97, 116, 97, 95, 70, 105, 108, 101>>
             \o <<num_bits % 256, num_bits \div 256, 0, 0, 0, 0, 0, 0>>
             \o bs)

\* C20: a save leaves the vector as it was and, when it returns true, the file
\* holds the header, num_bits and the ceil(num_bits / 8) bytes of the buffer; a
\* load of the file a successful save of b wrote returns a vector with the
\* num_bits of b and the bytes of b, byte for byte.
C20_SaveLoadRoundTrip ==
    /\ last.op = "save"
           => /\ ~crashed
              /\ heap = last.heap
              /\ ptrs = last.ptrs
              /\ last.ret = 1 => disk = FileOf(PreBits, PreData)
    /\ (/\ last.op = "load"
        /\ ~AllocationFailed
        /\ ~last.arg1.fopen_fail
        /\ ~last.arg1.fclose_fail
        /\ last.ptrs.b # NULL
        /\ disk = SavedOriginal)
           => /\ BuiltNew(Original.num_bits)
              /\ NewData = OriginalData

\* Twelve bits and four padding bits come back from the file
C20_Witness ==
    /\ last.op = "load"
    /\ last.h = "copy"
    /\ Original.num_bits = 12
    /\ OriginalData = <<165, 15>>
    /\ disk = FileOf(12, <<165, 15>>)
    /\ last.ret = 3
    /\ NewStruct.num_bits = 12
    /\ NewData = <<165, 15>>

\* The file the last call, a load, found
PreFile == disk

\* The file does not start with the 18 characters "BitArray_Data_File"
LacksHeader(file) ==
    \/ Len(file.bytes) < 18
    \/ SubSeq(file.bytes, 1, 18)
           # <<66, 105, 116, 65, 114, 114, 97, 121, 95, 68, 97, 116, 97, 95, 70, 105, 108, 101>>

\* C21: a load of a file that is shorter than 18 bytes, or whose first 18 bytes
\* are not the header "BitArray_Data_File", returns NULL and allocates nothing:
\* the heap and the caller's handles are as before the call.
C21_BadHeaderIsRefused ==
    (/\ last.op = "load"
     /\ LacksHeader(PreFile))
        => BuiltNothing

\* A saved vector whose header differs in its last character, all allocations
\* going through
C21_Witness ==
    /\ last.op = "load"
    /\ ~AllocationFailed
    /\ ~last.arg1.fopen_fail
    /\ ~last.arg1.fclose_fail
    /\ disk.exists
    /\ Len(disk.bytes) = 28
    /\ disk.bytes[18] = 100
    /\ last.ret = NULL
    /\ heap = last.heap

\* C22: whenever a load returns NULL, on any path, nothing it allocated remains
\* allocated: the heap is as before the call and the caller's handle stays NULL.
C22_FailedLoadLeaksNothing ==
    (/\ last.op = "load"
     /\ ~crashed
     /\ last.ret = NULL)
        => /\ ptrs = last.ptrs
           /\ heap = last.heap

\* Every search of the library
Searches == NextSearches \cup PrevSearches \cup LastSearches

\* C23: in the checked build next_* and prev_* called with from >= num_bits, and
\* every search (next_*, prev_*, first_*, last_*) called on a vector of no bits,
\* end in a failed assert: no found or not-found is returned, *result and the
\* vector are as before the call.
C23_SearchOutOfRangeIsFatal ==
    (\/ /\ last.op \in {"next_set_bit", "next_clear_bit", "prev_set_bit", "prev_clear_bit"}
        /\ last.arg1 >= PreBits
     \/ /\ last.op \in Searches
        /\ PreBits = 0)
        => /\ crashed
           /\ last.out = last.out0
           /\ heap = last.heap
           /\ ptrs = last.ptrs

\* last_set_bit on a vector of no bits: the index searched from wraps around
C23_Witness ==
    /\ last.op = "last_set_bit"
    /\ PreBits = 0
    /\ PreData = <<>>
    /\ last.out0 = 77
    /\ last.out = 77
    /\ crashed

WholeOps == {"set", "clear", "toggle"}

\* What a whole-vector operation makes of a bit of value v
AppliedWhole(op, v) ==
    CASE op = "set" -> TRUE
      [] op = "clear" -> FALSE
      [] op = "toggle" -> ~v

\* C24: on a vector of one bit or more BitArray_set, BitArray_clear and
\* BitArray_toggle leave the vector as the region operation over
\* [0, num_bits - 1] does: every bit below num_bits is 1, is 0, or is inverted,
\* also when num_bits is not a multiple of 8; the struct, the buffer length and
\* every other block are as before.
C24_WholeIsRegion ==
    (/\ last.op \in WholeOps
     /\ PreBits >= 1)
        => /\ ~crashed
           /\ ptrs = last.ptrs
           /\ DOMAIN heap = DOMAIN last.heap
           /\ PostStruct = PreStruct
           /\ Len(PostData) = Len(PreData)
           /\ \A i \in 0..(PreBits - 1) :
                  BitAt(PostData, i) = AppliedWhole(last.op, BitAt(PreData, i))
           /\ heap = internal_BitArray_operate_region(last.heap, last.ptrs[last.h],
                                                      0, PreBits - 1, last.op).heap

\* BitArray_toggle on twelve bits: the four padding bits stay
C24_Witness ==
    /\ last.op = "toggle"
    /\ PreBits = 12
    /\ PreData = <<165, 15>>
    /\ PostData = <<90, 255>>

\* The last call is the call before it made again: same function, same vector,
\* same arguments
Repeated ==
    /\ last.op = last.prev.op
    /\ last.h = last.prev.h
    /\ last.arg1 = last.prev.arg1
    /\ last.arg2 = last.prev.arg2

\* The buffer of the vector before the first of the two calls
FirstData == last.prev.heap[last.prev.heap[last.ptrs[last.h]].data].bytes

\* C25: toggle_bit(v, i) with a valid i applied twice restores the vector, and
\* so do the whole-vector toggle on a vector of one bit or more and
\* toggle_region over the same bounds, applied twice: every bit, the struct and
\* every other block are as before the first call.
C25_ToggleIsInvolution ==
    (/\ last.op \in {"toggle_bit", "toggle", "toggle_region"}
     /\ Repeated)
        => /\ ~crashed
           /\ ptrs = last.ptrs
           /\ heap = last.prev.heap
           /\ \A i \in Positions(FirstData) : BitAt(PostData, i) = BitAt(FirstData, i)

\* BitArray_toggle twice on twelve bits
C25_Witness ==
    /\ last.op = "toggle"
    /\ Repeated
    /\ PreBits = 12
    /\ FirstData = <<165, 15>>
    /\ PreData = <<90, 255>>
    /\ PostData = <<165, 15>>

\* C26: set_bit(v, i) with a valid i called twice leaves the vector as one call
\* does, with bit i set; clear_bit(v, i) likewise, with bit i clear.
C26_SetClearIdempotent ==
    (/\ last.op \in {"set_bit", "clear_bit"}
     /\ Repeated)
        => /\ ~crashed
           /\ ptrs = last.ptrs
           /\ heap = last.heap
           /\ BitAt(PostData, last.arg1) = (last.op = "set_bit")
           /\ \A i \in Positions(FirstData) \ {last.arg1} :
                  BitAt(PostData, i) = BitAt(FirstData, i)

\* clear_bit(v, 10) twice where bit 10 was set
C26_Witness ==
    /\ last.op = "clear_bit"
    /\ Repeated
    /\ last.arg1 = 10
    /\ FirstData = <<15, 165>>
    /\ PreData = <<15, 133>>
    /\ PostData = <<15, 133>>

\* The handles that hold a vector
Live == {h \in Handles : ptrs[h] # NULL}

\* C27: in every state reached by any sequence of init, init_from_hex,
\* init_from_bin, load, copy, resize (successful or failed) and bit, region and
\* query calls, the buffer of each live vector is exactly ceil(num_bits / 8)
\* bytes long, and the num_bits of a vector that was live before the last call
\* differs from its value before the call only when that call is a resize that
\* returned the vector.
C27_BufferFitsBits ==
    /\ \A h \in Live :
           /\ ptrs[h] \in DOMAIN heap
           /\ heap[ptrs[h]].kind = "BitArray"
           /\ heap[ptrs[h]].data \in DOMAIN heap
           /\ heap[heap[ptrs[h]].data].kind = "bytes"
           /\ Len(heap[heap[ptrs[h]].data].bytes) = (heap[ptrs[h]].num_bits + 7) \div 8
    /\ \A h \in Live :
           (/\ last.ptrs[h] # NULL
            /\ ~(last.op = "resize" /\ last.h = h /\ last.ret # NULL))
               => /\ ptrs[h] = last.ptrs[h]
                  /\ heap[ptrs[h]].num_bits = last.heap[last.ptrs[h]].num_bits

\* A vector built from "A5F" grows to MaxBits bits and its last bit is set
C27_Witness ==
    /\ last.op = "set_bit"
    /\ last.prev.op = "resize"
    /\ last.prev.arg1 = MaxBits
    /\ last.prev.heap[last.ptrs[last.h]].num_bits = 12
    /\ PreBits = MaxBits
    /\ last.arg1 = MaxBits - 1
    /\ Len(PostData) = (MaxBits + 7) \div 8
    /\ BitAt(PostData, MaxBits - 1)
    /\ ~crashed

RECURSIVE Layout(_, _, _)
\* Digits k, k + 1, ... of a text laid out in lines of width digits: ", " between
\* two digits of a line, "\n" after the last digit of a line and after the last
\* digit of all
Layout(digits, k, width) ==
    IF k > Len(digits) THEN <<>>
    ELSE <<digits[k]>>
             \o (IF k = Len(digits) \/ k % width = 0 THEN <<10>> ELSE <<44, 32>>)
             \o Layout(digits, k + 1, width)

\* C28: for a vector that is not empty and chars_per_line >= 1, print_hex and
\* print_bin write the digits to_hex_str and to_bin_str give, in the same order
\* (the left-padded last hex digit included), with ", " between consecutive
\* digits of a line, "\n" in place of the separator after every
\* chars_per_line-th digit and exactly one "\n" after the last digit; the vector
\* is left as it was.
C28_PrintMatchesStrings ==
    (/\ last.op \in {"print_hex", "print_bin"}
     /\ PreBits >= 1
     /\ last.arg1 >= 1)
        => /\ ~crashed
           /\ heap = last.heap
           /\ ptrs = last.ptrs
           /\ last.out = Layout(IF last.op = "print_hex"
                                THEN HexTextOfOriginal
                                ELSE BinTextOfOriginal, 1, last.arg1)

\* Seven bits 1010111 printed as hex: "A, 7\n"
C28_Witness ==
    /\ last.op = "print_hex"
    /\ last.arg1 = 3
    /\ PreBits = 7
    /\ PreData = <<175>>
    /\ last.out = <<65, 44, 32, 55, 10>>

\* Every call that sets, clears or toggles
Changers ==
    BitOps \cup RegionOps \cup WholeOps \cup {"set_bits", "clear_bits", "toggle_bits"}

\* The padding bits of a vector of n bits: the positions of its last byte from n on
Padding(n) == n..(8 * ((n + 7) \div 8) - 1)

\* C29: no single-bit, multi-bit, region or whole-vector set, clear or toggle
\* changes a bit of the last byte at a position >= num_bits, whether the call
\* returns or fails an assert half way; a vector that init, init_from_hex or
\* init_from_bin returns has all its padding bits 0, so they stay 0 after any
\* sequence of such calls.
C29_PaddingIsKept ==
    /\ last.op \in Changers
           => /\ PostStruct = PreStruct
              /\ Len(PostData) = Len(PreData)
              /\ \A i \in Padding(PreBits) : BitAt(PostData, i) = BitAt(PreData, i)
    /\ (last.op \in {"init", "init_from_hex", "init_from_bin"} /\ last.ret # NULL)
           => \A i \in Padding(NewStruct.num_bits) : ~BitAt(NewData, i)

\* BitArray_set on twelve bits whose four padding bits are 0
C29_Witness ==
    /\ last.op = "set"
    /\ PreBits = 12
    /\ PreData = <<165, 0>>
    /\ PostData = <<255, 240>>
    /\ ~crashed

\* C30: on a vector of no bits BitArray_set, BitArray_clear and BitArray_toggle
\* are no no-ops: the end index num_bits - 1 wraps around to the largest
\* index_t, and in the checked build the call ends in a failed assert with the
\* vector as it was.
C30_WholeOnEmptyIsFatal ==
    (/\ last.op \in WholeOps
     /\ PreBits = 0)
        => /\ LastIndex(PreBits) = INDEX_MAX
           /\ ~BITARRAY_ASSERT_INDEX_IN_RANGE(last.heap, last.ptrs[last.h], LastIndex(PreBits))
           /\ crashed
           /\ heap = last.heap
           /\ ptrs = last.ptrs

\* BitArray_clear on the vector BitArray_init(0) gives
C30_Witness ==
    /\ last.op = "clear"
    /\ PreBits = 0
    /\ PreData = <<>>
    /\ crashed
    /\ heap = last.heap

====
